---- MODULE Spec2Model ----
(***************************************************************************)
(* A model of semspec-ts: the byte-offset segment parser                   *)
(* (src/src/primitives/segments/parser.ts), the line-based segment parser  *)
(* (src/src/segments.ts), the reference parser, the journey, concept and   *)
(* linkage validators and the page aggregator.                             *)
(*                                                                         *)
(* Every subsystem is a pure function in the source.  Each gets its own    *)
(* specification (SpecSeg, SpecLine, ...) whose Init draws the inputs from *)
(* bounded sets and whose actions apply the functions; the variables of    *)
(* the other subsystems stay at their idle values.                         *)
(***************************************************************************)
EXTENDS Integers, Sequences, FiniteSets, TLC

(***************************************************************************)
(* Bounds of the model.                                                    *)
(***************************************************************************)
MaxTokens == 5
MaxSpecs == 2
MaxLines == 4
MaxStrLen == 2
MaxConns == 2
MaxAssets == 2
MaxFunctions == 2
MaxConcepts == 2
MaxSegments == 2
MaxMarkers == 2
MaxRefLen == 6
MaxProjLen == 4
MaxItems == 4

MaxRelationships == 2

MaxHierConcepts == 3

MaxPages == 2

MaxDfsNodes == 3

MaxRegistrations == 3

(***************************************************************************)
(* Generic helpers.                                                        *)
(***************************************************************************)
SeqsUpTo(S, n) == UNION {[1..k -> S] : k \in 0..n}

Min(a, b) == IF a < b THEN a ELSE b

\* An optional value (a field that may be undefined in the source).
None == [some |-> FALSE, v |-> 0]

Some(n) == [some |-> TRUE, v |-> n]

(***************************************************************************)
(* BYTE-OFFSET SEGMENT PARSER  (src/src/primitives/segments/parser.ts)     *)
(*                                                                         *)
(* A document is an optional frontmatter block followed by content.  The   *)
(* content is a sequence of tokens: a start marker with a key, an end      *)
(* marker, one character of other text, or a start marker whose key is the *)
(* text of an end marker (the key pattern [^"]+ admits it), so that        *)
(* SEGMENT_END_RE matches inside the start marker's own syntax.            *)
(***************************************************************************)
SegIds == {"A", "B"}

\* The key of a start marker that embeds an end marker.
EmbeddedKey == "<!--semcontext:segment end-->"

\* Length of the shortest text SEGMENT_END_RE matches.
EndMarkerLen == 29

\* Length of the shortest text SEGMENT_START_RE matches, without its key.
StartMarkerOverhead == 38

\* Offset of the key inside the shortest start marker.
KeyOffset == 34

StartToken(id) == [kind |-> "start", id |-> id]

EndToken == [kind |-> "end", id |-> ""]

TextToken == [kind |-> "text", id |-> ""]

StartEndToken == [kind |-> "startEnd", id |-> EmbeddedKey]

Tokens == {StartToken(id) : id \in SegIds} \cup {EndToken, TextToken, StartEndToken}

KeyLen(id) == IF id = EmbeddedKey THEN EndMarkerLen ELSE 1

TokenLen(t) ==
  CASE t.kind = "start"    -> StartMarkerOverhead + KeyLen(t.id)
    [] t.kind = "startEnd" -> StartMarkerOverhead + KeyLen(t.id)
    [] t.kind = "end"      -> EndMarkerLen
    [] OTHER               -> 1

\* A segment spec of the frontmatter: boost in tenths; return and generate
\* are the optional configuration blocks.
MkSpec(id, boost, ret, gen) ==
  [id |-> id, boost |-> boost, return |-> ret, generate |-> gen]

NullSpec == [null |-> TRUE]

\* A return or generate block of a spec: maxTokens, and for generate the
\* optional temperature (in tenths) and iterations.
ReturnConfig(maxTokens) ==
  [present |-> TRUE, maxTokens |-> maxTokens, temperature |-> None, iterations |-> None]

GenerateConfig(maxTokens, temperature, iterations) ==
  [present |-> TRUE, maxTokens |-> maxTokens,
   temperature |-> temperature, iterations |-> iterations]

NoConfig == [present |-> FALSE, maxTokens |-> 0, temperature |-> None, iterations |-> None]

\* Frontmatter specs of the documents of SpecSeg: only the id varies.
SegSpecs == {MkSpec(id, None, ReturnConfig(100), NoConfig) : id \in SegIds}

NoFrontmatter == [present |-> FALSE, specs |-> <<>>]

Frontmatters ==
  {NoFrontmatter} \cup {[present |-> TRUE, specs |-> s] : s \in SeqsUpTo(SegSpecs, MaxSpecs)}

\* frontmatterMatch[0].length: FRONTMATTER_RE matches "---\n", the YAML
\* text, "\n---\n".  The YAML text is not modelled character by character;
\* its length grows with the number of specs.
FrontmatterLength(f) == 9 + 12 * Len(f.specs)

\* Lines 52-57: the default boost.  !seg.boost is true of an undeclared
\* boost and of a declared 0.
NormalizeSpec(s) ==
  [s EXCEPT !.boost = IF ~s.boost.some \/ s.boost.v = 0 THEN Some(10) ELSE s.boost]

\* The matches of SEGMENT_START_RE in content, left to right.
RECURSIVE StartScan(_, _, _)
StartScan(content, i, off) ==
  IF i > Len(content) THEN <<>>
  ELSE LET t == content[i]
           here == IF t.kind \in {"start", "startEnd"}
                   THEN <<[index |-> off, length |-> TokenLen(t), id |-> t.id]>>
                   ELSE <<>>
       IN here \o StartScan(content, i + 1, off + TokenLen(t))

\* The matches of SEGMENT_END_RE in content, left to right.
RECURSIVE EndScan(_, _, _)
EndScan(content, i, off) ==
  IF i > Len(content) THEN <<>>
  ELSE LET t == content[i]
           here == CASE t.kind = "end" ->
                          <<[index |-> off, length |-> EndMarkerLen]>>
                     [] t.kind = "startEnd" ->
                          <<[index |-> off + KeyOffset, length |-> EndMarkerLen]>>
                     [] OTHER -> <<>>
       IN here \o EndScan(content, i + 1, off + TokenLen(t))

startMatches(content) == StartScan(content, 1, 0)

endMatches(content) == EndScan(content, 1, 0)

NoErr == [kind |-> "none", starts |-> 0, ends |-> 0, inner |-> "", outer |-> ""]

MismatchErr(ns, ne) ==
  [kind |-> "Mismatched", starts |-> ns, ends |-> ne, inner |-> "", outer |-> ""]

OrderingErr == [kind |-> "Ordering", starts |-> 0, ends |-> 0, inner |-> "", outer |-> ""]

NestedErr(id2, id1) ==
  [kind |-> "Nested", starts |-> 0, ends |-> 0, inner |-> id2, outer |-> id1]

MarkersFail(e) == [ok |-> FALSE, err |-> e, markers |-> <<>>]

MarkerRangeOf(start, end, offsetAdjust) ==
  [id |-> start.id,
   startMarkerBegin |-> start.index + offsetAdjust,
   startMarkerEnd |-> start.index + start.length + offsetAdjust,
   endMarkerBegin |-> end.index + offsetAdjust,
   endMarkerEnd |-> end.index + end.length + offsetAdjust]

\* Mutant of PairMarkers: the ranges are collected last pair first.
RECURSIVE PairMarkers_Reversed(_, _, _, _)
PairMarkers_Reversed(starts, ends, i, offsetAdjust) ==
  IF i > Len(starts) THEN [ok |-> TRUE, err |-> NoErr, markers |-> <<>>]
  ELSE LET start == starts[i]
           end == ends[i]
       IN IF end.index < start.index + start.length
          THEN MarkersFail(OrderingErr)
          ELSE IF i + 1 <= Len(starts) /\ starts[i + 1].index < end.index
          THEN MarkersFail(NestedErr(starts[i + 1].id, start.id))
          ELSE LET rest == PairMarkers_Reversed(starts, ends, i + 1, offsetAdjust)
               IN IF rest.ok
                  THEN [ok |-> TRUE, err |-> NoErr,
                        markers |-> rest.markers \o <<MarkerRangeOf(start, end, offsetAdjust)>>]
                  ELSE rest

\* Mutant of PairMarkers: the nesting check is missing.
RECURSIVE PairMarkers_NoNestingCheck(_, _, _, _)
PairMarkers_NoNestingCheck(starts, ends, i, offsetAdjust) ==
  IF i > Len(starts) THEN [ok |-> TRUE, err |-> NoErr, markers |-> <<>>]
  ELSE LET start == starts[i]
           end == ends[i]
       IN IF end.index < start.index + start.length
          THEN MarkersFail(OrderingErr)
          ELSE LET rest == PairMarkers_NoNestingCheck(starts, ends, i + 1, offsetAdjust)
               IN IF rest.ok
                  THEN [ok |-> TRUE, err |-> NoErr,
                        markers |-> <<MarkerRangeOf(start, end, offsetAdjust)>> \o rest.markers]
                  ELSE rest

\* Mutant of PairMarkers: the ordering check forgets the start marker's length.
RECURSIVE PairMarkers_OrderByBegin(_, _, _, _)
PairMarkers_OrderByBegin(starts, ends, i, offsetAdjust) ==
  IF i > Len(starts) THEN [ok |-> TRUE, err |-> NoErr, markers |-> <<>>]
  ELSE LET start == starts[i]
           end == ends[i]
       IN IF end.index < start.index
          THEN MarkersFail(OrderingErr)
          ELSE IF i + 1 <= Len(starts) /\ starts[i + 1].index < end.index
          THEN MarkersFail(NestedErr(starts[i + 1].id, start.id))
          ELSE LET rest == PairMarkers_OrderByBegin(starts, ends, i + 1, offsetAdjust)
               IN IF rest.ok
                  THEN [ok |-> TRUE, err |-> NoErr,
                        markers |-> <<MarkerRangeOf(start, end, offsetAdjust)>> \o rest.markers]
                  ELSE rest

\* The loop of parseMarkers (lines 125-151) from pair i on.
RECURSIVE PairMarkers(_, _, _, _)
PairMarkers(starts, ends, i, offsetAdjust) ==
  IF i > Len(starts) THEN [ok |-> TRUE, err |-> NoErr, markers |-> <<>>]
  ELSE LET start == starts[i]
           end == ends[i]
       IN IF end.index < start.index + start.length
          THEN MarkersFail(OrderingErr)
          ELSE IF i + 1 <= Len(starts) /\ starts[i + 1].index < end.index
          THEN MarkersFail(NestedErr(starts[i + 1].id, start.id))
          ELSE LET rest == PairMarkers(starts, ends, i + 1, offsetAdjust)
               IN IF rest.ok
                  THEN [ok |-> TRUE, err |-> NoErr,
                        markers |-> <<MarkerRangeOf(start, end, offsetAdjust)>> \o rest.markers]
                  ELSE rest

\* Mutant of parseMarkers: only an excess of start markers is a count error.
parseMarkers_OnlyExcessStarts(content, offsetAdjust) ==
  LET starts == startMatches(content)
      ends == endMatches(content)
  IN IF Len(starts) > Len(ends)
     THEN MarkersFail(MismatchErr(Len(starts), Len(ends)))
     ELSE PairMarkers(starts, ends, 1, offsetAdjust)

parseMarkers(content, offsetAdjust) ==
  LET starts == startMatches(content)
      ends == endMatches(content)
  IN IF Len(starts) # Len(ends)
     THEN MarkersFail(MismatchErr(Len(starts), Len(ends)))
     ELSE PairMarkers(starts, ends, 1, offsetAdjust)

\* Mutant of SpecLookup: an id without a spec gets the first spec listed.
SpecLookup_FirstSpecWhenMissing(specs, id, i) ==
  IF \E j \in 1..i : specs[j].id = id
  THEN specs[CHOOSE j \in 1..i : specs[j].id = id /\ \A k \in (j + 1)..i : specs[k].id # id]
  ELSE IF i = 0 THEN NullSpec ELSE specs[1]

\* specMap.get(id) || null: the last spec listed under the id.
RECURSIVE SpecLookup(_, _, _)
SpecLookup(specs, id, i) ==
  IF i = 0 THEN NullSpec
  ELSE IF specs[i].id = id THEN specs[i]
  ELSE SpecLookup(specs, id, i - 1)

\* docText.substring(from, to): the text tokens of content lying in
\* [from, to) of the document (content starts at offsetAdjust).
RECURSIVE BodyScan(_, _, _, _, _)
BodyScan(content, i, off, from, to) ==
  IF i > Len(content) THEN <<>>
  ELSE LET t == content[i]
           here == IF from <= off /\ off + TokenLen(t) <= to THEN <<t>> ELSE <<>>
       IN here \o BodyScan(content, i + 1, off + TokenLen(t), from, to)

parseSegments(d) ==
  LET frontmatterEndByte == IF d.frontmatter.present
                            THEN FrontmatterLength(d.frontmatter) ELSE 0
      specs == [i \in 1..Len(d.frontmatter.specs) |-> NormalizeSpec(d.frontmatter.specs[i])]
      pm == parseMarkers(d.content, frontmatterEndByte)
      instance(marker) ==
        [id |-> marker.id,
         spec |-> SpecLookup(specs, marker.id, Len(specs)),
         body |-> BodyScan(d.content, 1, frontmatterEndByte,
                           marker.startMarkerEnd, marker.endMarkerBegin),
         startByte |-> marker.startMarkerEnd,
         endByte |-> marker.endMarkerBegin]
  IN [ok |-> pm.ok,
      err |-> pm.err,
      specs |-> specs,
      frontmatterEndByte |-> frontmatterEndByte,
      markers |-> pm.markers,
      segments |-> [i \in 1..Len(pm.markers) |-> instance(pm.markers[i])]]

NoParse ==
  [ok |-> FALSE, err |-> NoErr, specs |-> <<>>, frontmatterEndByte |-> 0,
   markers |-> <<>>, segments |-> <<>>]

(***************************************************************************)
(* SEGMENT VALIDATION  (parser.ts, validateSegments / validateStrict /      *)
(* validateLoose).  A finding is {segmentId?, field?, message}; an absent  *)
(* segmentId or field is "".                                               *)
(***************************************************************************)
ValidationError(segmentId, field, message) ==
  [segmentId |-> segmentId, field |-> field, message |-> message]

DuplicateSpecId(id) == ValidationError(id, "id", "duplicate segment ID in frontmatter")

EmptySpecId == ValidationError("", "id", "segment ID cannot be empty")

NeitherConfig(id) ==
  ValidationError(id, "", "segment must have either 'return' or 'generate' configuration")

BothConfigs(id) ==
  ValidationError(id, "", "segment cannot have both 'return' and 'generate' configuration")

NegativeReturnTokens(id) ==
  ValidationError(id, "return.max_tokens", "max_tokens must be non-negative")

NegativeGenerateTokens(id) ==
  ValidationError(id, "generate.max_tokens", "max_tokens must be non-negative")

BadTemperature(id) ==
  ValidationError(id, "generate.temperature", "temperature must be between 0.0 and 2.0")

NegativeIterations(id) ==
  ValidationError(id, "generate.iterations", "iterations must be non-negative")

NegativeBoost(id) == ValidationError(id, "boost", "boost must be non-negative")

DuplicateMarkerId(id) == ValidationError(id, "", "duplicate segment ID in document markers")

MarkerWithoutSpec(id) ==
  ValidationError(id, "", "segment marker has no corresponding frontmatter spec")

SpecWithoutMarker(id) ==
  ValidationError(id, "", "frontmatter spec has no corresponding segment marker in document")

IfErr(cond, error) == IF cond THEN <<error>> ELSE <<>>

\* Lines 348-391: the range checks of validateSegments on one spec.
StrictRangeErrors(spec) ==
  IfErr(spec.return.present /\ spec.return.maxTokens < 0, NegativeReturnTokens(spec.id))
  \o IfErr(spec.generate.present /\ spec.generate.maxTokens < 0,
           NegativeGenerateTokens(spec.id))
  \o IfErr(/\ spec.generate.present
           /\ spec.generate.temperature.some
           /\ (spec.generate.temperature.v < 0 \/ spec.generate.temperature.v > 20),
           BadTemperature(spec.id))
  \o IfErr(/\ spec.generate.present
           /\ spec.generate.iterations.some
           /\ spec.generate.iterations.v < 0,
           NegativeIterations(spec.id))
  \o IfErr(spec.boost.some /\ spec.boost.v < 0, NegativeBoost(spec.id))

\* Lines 309-392: the findings of validateSegments on one spec, seenIDs
\* being the ids of the specs before it.  An empty id ends the checks of
\* the spec (continue).
StrictSpecErrors(spec, seenIDs) ==
  IfErr(spec.id \in seenIDs, DuplicateSpecId(spec.id))
  \o (IF spec.id = "" THEN <<EmptySpecId>>
      ELSE IfErr(~spec.return.present /\ ~spec.generate.present, NeitherConfig(spec.id))
           \o IfErr(spec.return.present /\ spec.generate.present, BothConfigs(spec.id))
           \o StrictRangeErrors(spec))

\* Lines 447-506: the findings of validateLoose on one spec.
LooseSpecErrors(spec, seenIDs) ==
  IfErr(spec.id \in seenIDs, DuplicateSpecId(spec.id))
  \o IfErr(spec.return.present /\ spec.generate.present, BothConfigs(spec.id))
  \o IfErr(spec.return.present /\ spec.return.maxTokens < 0, NegativeReturnTokens(spec.id))
  \o IfErr(spec.generate.present /\ spec.generate.maxTokens < 0,
           NegativeGenerateTokens(spec.id))
  \o IfErr(/\ spec.generate.present
           /\ spec.generate.temperature.some
           /\ (spec.generate.temperature.v < 0 \/ spec.generate.temperature.v > 20),
           BadTemperature(spec.id))
  \o IfErr(spec.boost.some /\ spec.boost.v < 0, NegativeBoost(spec.id))

\* The loop over the frontmatter specs, from the i-th on, in either mode.
RECURSIVE SpecLoop(_, _, _, _)
SpecLoop(specs, i, seenIDs, strict) ==
  IF i > Len(specs) THEN <<>>
  ELSE (IF strict THEN StrictSpecErrors(specs[i], seenIDs)
        ELSE LooseSpecErrors(specs[i], seenIDs))
       \o SpecLoop(specs, i + 1, seenIDs \cup {specs[i].id}, strict)

\* Lines 397-414 and 511-519: the loop over parsed.segments.
RECURSIVE MarkerLoop(_, _, _, _)
MarkerLoop(segs, i, markerIDs, strict) ==
  IF i > Len(segs) THEN <<>>
  ELSE IfErr(segs[i].id \in markerIDs, DuplicateMarkerId(segs[i].id))
       \o IfErr(strict /\ segs[i].spec = NullSpec, MarkerWithoutSpec(segs[i].id))
       \o MarkerLoop(segs, i + 1, markerIDs \cup {segs[i].id}, strict)

\* Lines 417-426: the specs without markers.
RECURSIVE UnmarkedSpecs(_, _, _)
UnmarkedSpecs(specs, i, markerIDs) ==
  IF i > Len(specs) THEN <<>>
  ELSE IfErr(specs[i].id \notin markerIDs, SpecWithoutMarker(specs[i].id))
       \o UnmarkedSpecs(specs, i + 1, markerIDs)

validateSegments(doc) ==
  SpecLoop(doc.specs, 1, {}, TRUE)
  \o MarkerLoop(doc.segments, 1, {}, TRUE)
  \o UnmarkedSpecs(doc.specs, 1, {doc.segments[i].id : i \in 1..Len(doc.segments)})

validateStrict(doc) == validateSegments(doc)

\* Mutant of validateLoose: the loose mode makes the checks of the strict one.
validateLoose_AllChecks(doc) == validateSegments(doc)

validateLoose(doc) ==
  SpecLoop(doc.specs, 1, {}, FALSE) \o MarkerLoop(doc.segments, 1, {}, FALSE)

\* The frontmatter specs of the validated documents.
ValSpecIds == {"", "A"}

\* Boost, return block and generate block of the specs a frontmatter is
\* written from: a valid generate block, a negative boost with a negative
\* return budget, each range violation of a generate block, neither block,
\* both blocks, a declared boost of 0 and one of 1.2.
ValConfigs ==
  {<<None, NoConfig, GenerateConfig(100, Some(7), Some(2))>>,
   <<Some(-1), ReturnConfig(-1), NoConfig>>,
   <<None, NoConfig, GenerateConfig(-1, Some(25), None)>>,
   <<None, NoConfig, GenerateConfig(100, Some(-1), Some(-1))>>,
   <<None, NoConfig, NoConfig>>,
   <<None, ReturnConfig(-1), GenerateConfig(100, Some(7), Some(2))>>,
   <<Some(0), ReturnConfig(100), NoConfig>>,
   <<Some(12), ReturnConfig(100), NoConfig>>}

ValSpecs ==
  {MkSpec(id, config[1], config[2], config[3]) : id \in ValSpecIds, config \in ValConfigs}

(***************************************************************************)
(* LINE-BASED SEGMENT PARSER  (src/src/segments.ts)                        *)
(*                                                                         *)
(* The document is split into lines.  A line is classified by the two      *)
(* tests of the loop: it holds a start marker (with its key and, possibly, *)
(* the type and audience attributes), it holds an end marker, it holds     *)
(* both, or it holds neither.                                              *)
(***************************************************************************)
LineKeys == {"A", "B"}

NoAttrs == [type |-> None, audience |-> ""]

\* type="howto" audience="dev, ops" (the type as an optional code).
SomeAttrs == [type |-> Some(1), audience |-> "dev, ops"]

StartLine(key, attrs) == [kind |-> "start", key |-> key, attrs |-> attrs]

EndLine == [kind |-> "end", key |-> "", attrs |-> NoAttrs]

TextLine == [kind |-> "text", key |-> "", attrs |-> NoAttrs]

\* One line with a start marker and an end marker.
BothLine == [kind |-> "both", key |-> "A", attrs |-> NoAttrs]

\* A start marker written with key="": the pattern of line 24 asks for a
\* non-empty key, so the line matches neither pattern.
EmptyKeyLine == [kind |-> "emptyKey", key |-> "", attrs |-> NoAttrs]

Lines ==
  {StartLine(k, NoAttrs) : k \in LineKeys} \cup
  {StartLine("A", SomeAttrs), EndLine, TextLine, BothLine, EmptyKeyLine}

\* line.match(<start pattern>) of line 24.
startMatch(line) == line.kind \in {"start", "both"}

\* line.match(END_PATTERN) of line 43.
endMatch(line) == line.kind \in {"end", "both"}

\* audience.split(',').map(a => a.trim()) of line 35.
SplitAudience(a) ==
  IF a = "" THEN <<>> ELSE IF a = "dev, ops" THEN <<"dev", "ops">> ELSE <<a>>

NoSegment ==
  [open |-> FALSE, key |-> "", type |-> None, audience |-> <<>>, startLine |-> 0]

NoLineErr == [kind |-> "none", line |-> 0, key |-> ""]

(***************************************************************************)
(* REFERENCE PARSER  (src/unnamed/part_006; parseSegmentRef and            *)
(* buildSegmentRef are also in primitives/segments/parser.ts:225-286)      *)
(*                                                                         *)
(* A string is a sequence of characters; positions are 1-based here and    *)
(* 0-based in the source, and 0 stands for the source's -1.                *)
(***************************************************************************)
Chars == {"@", "/", "#", "a"}

\* A string | null.
NullStr == [some |-> FALSE, v |-> <<>>]

Str(s) == [some |-> TRUE, v |-> s]

\* ref.indexOf(c)
IndexOf(s, c) ==
  IF \E i \in 1..Len(s) : s[i] = c
  THEN CHOOSE i \in 1..Len(s) : s[i] = c /\ \A j \in 1..(i - 1) : s[j] # c
  ELSE 0

\* ref.lastIndexOf(c)
LastIndexOf(s, c) ==
  IF \E i \in 1..Len(s) : s[i] = c
  THEN CHOOSE i \in 1..Len(s) : s[i] = c /\ \A j \in (i + 1)..Len(s) : s[j] # c
  ELSE 0

StartsWith(s, c) == Len(s) >= 1 /\ s[1] = c

InvalidRef ==
  [valid |-> FALSE, project |-> NullStr, documentId |-> NullStr,
   segmentId |-> <<>>, original |-> <<>>]

SegmentRef(project, documentId, segmentId, original) ==
  [valid |-> TRUE, project |-> project, documentId |-> documentId,
   segmentId |-> segmentId, original |-> original]

\* Mutant of parseSegmentRef: the fragment is split off at the first '#'.
parseSegmentRef_FirstHash(ref) ==
  IF StartsWith(ref, "#")
  THEN SegmentRef(NullStr, NullStr, SubSeq(ref, 2, Len(ref)), ref)
  ELSE LET hashIdx == IndexOf(ref, "#")
       IN IF hashIdx = 0 \/ hashIdx = Len(ref) THEN InvalidRef
          ELSE LET segmentId == SubSeq(ref, hashIdx + 1, Len(ref))
                   resourcePath == SubSeq(ref, 1, hashIdx - 1)
               IN IF StartsWith(resourcePath, "@")
                  THEN LET slashIdx == IndexOf(resourcePath, "/")
                       IN IF slashIdx = 0 THEN InvalidRef
                          ELSE SegmentRef(Str(SubSeq(resourcePath, 2, slashIdx - 1)),
                                          Str(SubSeq(resourcePath, slashIdx + 1,
                                                     Len(resourcePath))),
                                          segmentId, ref)
                  ELSE SegmentRef(NullStr, Str(resourcePath), segmentId, ref)

parseSegmentRef(ref) ==
  IF StartsWith(ref, "#")
  THEN SegmentRef(NullStr, NullStr, SubSeq(ref, 2, Len(ref)), ref)
  ELSE LET hashIdx == LastIndexOf(ref, "#")
       IN IF hashIdx = 0 \/ hashIdx = Len(ref) THEN InvalidRef
          ELSE LET segmentId == SubSeq(ref, hashIdx + 1, Len(ref))
                   resourcePath == SubSeq(ref, 1, hashIdx - 1)
               IN IF StartsWith(resourcePath, "@")
                  THEN LET slashIdx == IndexOf(resourcePath, "/")
                       IN IF slashIdx = 0 THEN InvalidRef
                          ELSE SegmentRef(Str(SubSeq(resourcePath, 2, slashIdx - 1)),
                                          Str(SubSeq(resourcePath, slashIdx + 1,
                                                     Len(resourcePath))),
                                          segmentId, ref)
                  ELSE SegmentRef(NullStr, Str(resourcePath), segmentId, ref)

buildSegmentRef(project, pageId, segmentId) ==
  <<"@">> \o project \o <<"/">> \o pageId \o <<"#">> \o segmentId

NonEmptyStrings == SeqsUpTo(Chars, MaxStrLen) \ {<<>>}

\* The characters of the project references.
ProjChars == {"@", ":", "a"}

NoProjectRef == [valid |-> FALSE, scope |-> <<>>, project |-> <<>>, original |-> <<>>]

ProjectRef(scope, project, original) ==
  [valid |-> TRUE, scope |-> scope, project |-> project, original |-> original]

\* part_006:91-120.  The scope of the second form includes the colon.
parseProjectRef(ref) ==
  IF StartsWith(ref, "@")
  THEN LET project == SubSeq(ref, 2, Len(ref))
       IN IF project = <<>> THEN NoProjectRef ELSE ProjectRef(<<"@">>, project, ref)
  ELSE LET colonIdx == IndexOf(ref, ":")
       IN IF colonIdx = 0 THEN NoProjectRef
          ELSE LET scope == SubSeq(ref, 1, colonIdx)
                   project == SubSeq(ref, colonIdx + 1, Len(ref))
               IN IF project = <<>> THEN NoProjectRef ELSE ProjectRef(scope, project, ref)

\* A ReferenceContext: currentProject and currentPage, each an optional
\* string.
ReferenceContext(currentProject, currentPage) ==
  [currentProject |-> currentProject, currentPage |-> currentPage]

OptionalStrings == {NullStr, Str(<<>>), Str(<<"a">>)}

Contexts ==
  {ReferenceContext(project, page) : project \in OptionalStrings, page \in OptionalStrings}

\* The truthiness of a string | null | undefined.
Truthy(str) == str.some /\ str.v # <<>>

\* a || b
OrElse(a, b) == IF Truthy(a) THEN a ELSE b

\* resolveReference threw: "format", "project" or "page".
Unresolved(error) ==
  [threw |-> error, canonical |-> <<>>, scope |-> <<>>, project |-> <<>>,
   page |-> <<>>, segment |-> <<>>]

ResolvedRef(canonical, project, page, segment) ==
  [threw |-> "none", canonical |-> canonical, scope |-> <<"@">>, project |-> project,
   page |-> page, segment |-> segment]

\* Mutant of resolveReference: the context goes before the reference.
resolveReference_ContextFirst(ref, context) ==
  LET parsed == parseSegmentRef(ref)
  IN IF ~parsed.valid THEN Unresolved("format")
     ELSE LET project == OrElse(context.currentProject, parsed.project)
              page == OrElse(context.currentPage, parsed.documentId)
          IN IF ~Truthy(project) THEN Unresolved("project")
             ELSE IF ~Truthy(page) THEN Unresolved("page")
             ELSE ResolvedRef(buildSegmentRef(project.v, page.v, parsed.segmentId),
                              project.v, page.v, parsed.segmentId)

\* part_006:168-199.
resolveReference(ref, context) ==
  LET parsed == parseSegmentRef(ref)
  IN IF ~parsed.valid THEN Unresolved("format")
     ELSE LET project == OrElse(parsed.project, context.currentProject)
              page == OrElse(parsed.documentId, context.currentPage)
          IN IF ~Truthy(project) THEN Unresolved("project")
             ELSE IF ~Truthy(page) THEN Unresolved("page")
             ELSE ResolvedRef(buildSegmentRef(project.v, page.v, parsed.segmentId),
                              project.v, page.v, parsed.segmentId)

NoContext == ReferenceContext(NullStr, NullStr)

NotResolved == Unresolved("")

(***************************************************************************)
(* JOURNEY VALIDATION  (src/unnamed/part_009:433-502)                      *)
(*                                                                         *)
(* A node is its id and the target_node_id of each of its connections, in  *)
(* order; "" is the target_node_id of a connection that has none (one that *)
(* carries only a target_journey).                                         *)
(***************************************************************************)
NodeIds == <<"a", "b", "c">>

NodeIdSet == {NodeIds[i] : i \in 1..Len(NodeIds)}

NoTarget == ""

Targets == NodeIdSet \cup {NoTarget}

HeaderFields == {"id", "key", "name", "projects"}

JourneyNode(id, connections) == [id |-> id, connections |-> connections]

\* journey.nodes is undefined
NoNodes == [some |-> FALSE, v |-> <<>>]

\* journey.nodes is a list
NodeList(l) == [some |-> TRUE, v |-> l]

\* The journeys written first: any header, no node list or an empty one.
Journeys ==
  {[header |-> h, nodes |-> n] : h \in SUBSET HeaderFields, n \in {NoNodes, NodeList(<<>>)}}

Finding(msg, id) == [msg |-> msg, id |-> id]

CycleFinding == Finding("Journey graph contains cycles (must be DAG)", "")

\* graph.get(nodeId) || []: the targets set last for nodeId (line 472),
\* without the absent ones (filter(Boolean)).
RECURSIVE GraphGet(_, _, _)
GraphGet(nodes, nodeId, i) ==
  IF i = 0 THEN <<>>
  ELSE IF nodes[i].id = nodeId
       THEN SelectSeq(nodes[i].connections, LAMBDA t : t # NoTarget)
       ELSE GraphGet(nodes, nodeId, i - 1)

\* Mutant of DfsNeighbors: any neighbor visited before counts as a cycle.
RECURSIVE dfs_VisitedIsCycle(_, _, _)
RECURSIVE DfsNeighbors_VisitedIsCycle(_, _, _, _, _)
dfs_VisitedIsCycle(nodes, nodeId, st) ==
  LET entered == [st EXCEPT !.visited = @ \cup {nodeId}, !.recStack = @ \cup {nodeId}]
  IN DfsNeighbors_VisitedIsCycle(nodes, nodeId, GraphGet(nodes, nodeId, Len(nodes)), 1, entered)

DfsNeighbors_VisitedIsCycle(nodes, nodeId, neighbors, k, st) ==
  IF k > Len(neighbors)
  THEN [st EXCEPT !.recStack = @ \ {nodeId}]
  ELSE IF neighbors[k] \notin st.visited
       THEN LET r == dfs_VisitedIsCycle(nodes, neighbors[k], st)
            IN IF r.found THEN r
               ELSE DfsNeighbors_VisitedIsCycle(nodes, nodeId, neighbors, k + 1, r)
       ELSE [st EXCEPT !.found = TRUE]

\* dfs (lines 478-493): st is the visited set, the recursion stack and
\* whether a cycle was found.
RECURSIVE dfs(_, _, _)
RECURSIVE DfsNeighbors(_, _, _, _, _)
dfs(nodes, nodeId, st) ==
  LET entered == [st EXCEPT !.visited = @ \cup {nodeId}, !.recStack = @ \cup {nodeId}]
  IN DfsNeighbors(nodes, nodeId, GraphGet(nodes, nodeId, Len(nodes)), 1, entered)

\* The loop over the neighbors of nodeId (lines 483-492) from the k-th on.
DfsNeighbors(nodes, nodeId, neighbors, k, st) ==
  IF k > Len(neighbors)
  THEN [st EXCEPT !.recStack = @ \ {nodeId}]
  ELSE IF neighbors[k] \notin st.visited
       THEN LET r == dfs(nodes, neighbors[k], st)
            IN IF r.found THEN r
               ELSE DfsNeighbors(nodes, nodeId, neighbors, k + 1, r)
       ELSE IF neighbors[k] \in st.recStack
            THEN [st EXCEPT !.found = TRUE]
            ELSE DfsNeighbors(nodes, nodeId, neighbors, k + 1, st)

\* The loop of lines 495-499 from the i-th node on.
RECURSIVE DfsRoots(_, _, _)
DfsRoots(nodes, i, st) ==
  IF i > Len(nodes) THEN st
  ELSE IF nodes[i].id \notin st.visited
       THEN LET r == dfs(nodes, nodes[i].id, st)
            IN IF r.found THEN r ELSE DfsRoots(nodes, i + 1, r)
       ELSE DfsRoots(nodes, i + 1, st)

hasCycles(nodes) ==
  DfsRoots(nodes, 1, [visited |-> {}, recStack |-> {}, found |-> FALSE]).found

\* The findings of the node loop (lines 447-459) from the i-th node on.
RECURSIVE NodeFindings(_, _, _)
NodeFindings(nodes, i, nodeIds) ==
  IF i > Len(nodes) THEN <<>>
  ELSE (IF nodes[i].id = "" THEN <<Finding("Node ID is required", "")>> ELSE <<>>)
       \o (IF nodes[i].id \in nodeIds
           THEN <<Finding("Duplicate node ID", nodes[i].id)>> ELSE <<>>)
       \o NodeFindings(nodes, i + 1, nodeIds \cup {nodes[i].id})

\* validateJourney: the findings returned, or threw when hasCycles is
\* handed the undefined journey.nodes (for ... of undefined).
validateJourney(journey) ==
  LET required(f, msg) == IF f \notin journey.header THEN <<Finding(msg, "")>> ELSE <<>>
      nodes == journey.nodes.v
      head == required("id", "Journey ID is required")
              \o required("key", "Journey key is required")
              \o required("name", "Journey name is required")
              \o required("projects", "At least one project required")
              \o (IF ~journey.nodes.some \/ nodes = <<>>
                  THEN <<Finding("At least one node required", "")>> ELSE <<>>)
              \o NodeFindings(nodes, 1, {})
  IN IF ~journey.nodes.some
     THEN [threw |-> TRUE, errors |-> <<>>]
     ELSE [threw |-> FALSE,
           errors |-> head \o (IF hasCycles(nodes) THEN <<CycleFinding>> ELSE <<>>)]

NoJourney == [header |-> {}, nodes |-> NoNodes]

NoValidation == [threw |-> FALSE, errors |-> <<>>]

(***************************************************************************)
(* LINKAGE  (src/src/linkage.ts)                                           *)
(*                                                                         *)
(* code_to_assets and asset_to_code are objects: sequences of entries      *)
(* with distinct keys, in insertion order (the order of Object.entries).   *)
(* An asset is its path; a code ref is its path and its functions.         *)
(***************************************************************************)
AssetPaths == {"x.md", "y.md"}

CodePaths == {"f.go"}

Functions == {"A", "B"}

\* `${codeRef.path}:${func}` of line 104.
SymbolOf(path, func) == path \o ":" \o func

Symbols == {SymbolOf(path, func) : path \in CodePaths, func \in Functions}

CodeMapping(symbol, assets) == [key |-> symbol, assets |-> assets]

CodeRef(path, functions) == [path |-> path, functions |-> functions]

AssetMapping(docPath, code_refs) == [key |-> docPath, code_refs |-> code_refs]

EmptyLinkage == [code_to_assets |-> <<>>, asset_to_code |-> <<>>]

\* !!object[key]: the object has an entry under key.
HasKey(object, key) == \E i \in 1..Len(object) : object[i].key = key

MissingReverse(path) == [kind |-> "Missing reverse mapping", name |-> path]

MissingForward(symbol) == [kind |-> "Missing forward mapping", name |-> symbol]

\* Lines 93-97: the assets of one code_to_assets entry, from the k-th on.
RECURSIVE AssetErrors(_, _, _)
AssetErrors(linkage, assets, k) ==
  IF k > Len(assets) THEN <<>>
  ELSE (IF ~HasKey(linkage.asset_to_code, assets[k])
        THEN <<MissingReverse(assets[k])>> ELSE <<>>)
       \o AssetErrors(linkage, assets, k + 1)

\* Lines 92-98: the entries of code_to_assets, from the i-th on.
RECURSIVE ReverseErrors(_, _)
ReverseErrors(linkage, i) ==
  IF i > Len(linkage.code_to_assets) THEN <<>>
  ELSE AssetErrors(linkage, linkage.code_to_assets[i].assets, 1)
       \o ReverseErrors(linkage, i + 1)

\* Lines 103-108: the functions of one code ref, from the k-th on.
RECURSIVE FunctionErrors(_, _, _)
FunctionErrors(linkage, codeRef, k) ==
  IF k > Len(codeRef.functions) THEN <<>>
  ELSE (IF ~HasKey(linkage.code_to_assets, SymbolOf(codeRef.path, codeRef.functions[k]))
        THEN <<MissingForward(SymbolOf(codeRef.path, codeRef.functions[k]))>> ELSE <<>>)
       \o FunctionErrors(linkage, codeRef, k + 1)

\* Lines 102-109: the code refs of one asset_to_code entry, from the j-th on.
RECURSIVE CodeRefErrors(_, _, _)
CodeRefErrors(linkage, code_refs, j) ==
  IF j > Len(code_refs) THEN <<>>
  ELSE FunctionErrors(linkage, code_refs[j], 1) \o CodeRefErrors(linkage, code_refs, j + 1)

\* Lines 101-110: the entries of asset_to_code, from the i-th on.
RECURSIVE ForwardErrors(_, _)
ForwardErrors(linkage, i) ==
  IF i > Len(linkage.asset_to_code) THEN <<>>
  ELSE CodeRefErrors(linkage, linkage.asset_to_code[i].code_refs, 1)
       \o ForwardErrors(linkage, i + 1)

\* Mutant of validateBidirectionalConsistency: the second direction is
\* checked only when the first found nothing.
validateBidirectionalConsistency_ShortCircuit(linkage) ==
  IF ReverseErrors(linkage, 1) # <<>> THEN ReverseErrors(linkage, 1)
  ELSE ForwardErrors(linkage, 1)

validateBidirectionalConsistency(linkage) ==
  ReverseErrors(linkage, 1) \o ForwardErrors(linkage, 1)

(***************************************************************************)
(* CONCEPT GRAPH  (src/src/concepts.ts)                                    *)
(*                                                                         *)
(* Confidences and weights are in tenths.  A relationship end is the       *)
(* string it holds: a concept id, bare or behind the prefix 'concept:@'.   *)
(***************************************************************************)
ConceptIds == {"", "a"}

Sources == {"manual", "discovered", "imported"}

Confidences == {None, Some(5), Some(15)}

Weights == {5, 11}

Concept(id, key, name, source, confidence) ==
  [id |-> id, key |-> key, name |-> name, source |-> source, confidence |-> confidence]

\* The concepts a graph is written from: key and name are both given or
\* both empty; an imported concept carries no confidence.
Concepts ==
  {Concept(id, kn[1], kn[2], sc[1], sc[2]) :
     id \in ConceptIds,
     kn \in {<<"k", "n">>, <<"", "">>},
     sc \in ((Sources \ {"imported"}) \X Confidences) \cup {<<"imported", None>>}}

ConceptRef(prefixed, id) == [prefixed |-> prefixed, id |-> id]

ConceptRefs == {ConceptRef(FALSE, "a"), ConceptRef(TRUE, "a"), ConceptRef(FALSE, "b")}

\* The string of a relationship end.
RefString(r) == IF r.prefixed THEN "concept:@" \o r.id ELSE r.id

\* rel.from.replace(/^concept:@/, '') of lines 83 and 86.
StripPrefix(r) == r.id

ConceptRelationship(from, to, kind, weight) ==
  [from |-> from, to |-> to, kind |-> kind, weight |-> weight]

Relationships ==
  {ConceptRelationship(from, to, "related", weight) :
     from \in ConceptRefs, to \in ConceptRefs, weight \in Weights}

EmptyGraph == [concepts |-> <<>>, relationships |-> <<>>]

ConceptError(kind, name) == [kind |-> kind, name |-> name]

IdRequired == ConceptError("Concept ID is required", "")

KeyRequired == ConceptError("Concept key is required", "")

NameRequired == ConceptError("Concept name is required", "")

DuplicateId(id) == ConceptError("Duplicate concept ID", id)

DiscoveredNeedsConfidence(id) ==
  ConceptError("Discovered concept must have confidence score", id)

ManualHasConfidence(id) ==
  ConceptError("Manual concept should not have confidence score", id)

InvalidConfidence(id) == ConceptError("Invalid confidence: must be 0.0-1.0", id)

NonExistentConcept(ref) ==
  ConceptError("Relationship references non-existent concept", ref)

InvalidWeight == ConceptError("Invalid relationship weight: must be 0.0-1.0", "")

SelfReference == ConceptError("Self-referencing relationships not allowed", "")

When(cond, error) == IF cond THEN <<error>> ELSE <<>>

\* Mutant of ConceptErrors: a confidence that is reported as unwanted is
\* not range-checked as well.
ConceptErrors_OneConfidenceError(concept, conceptIds) ==
  When(concept.id = "", IdRequired)
  \o When(concept.key = "", KeyRequired)
  \o When(concept.name = "", NameRequired)
  \o When(concept.id \in conceptIds, DuplicateId(concept.id))
  \o When(concept.source = "discovered" /\ ~concept.confidence.some,
          DiscoveredNeedsConfidence(concept.id))
  \o When(concept.source = "manual" /\ concept.confidence.some,
          ManualHasConfidence(concept.id))
  \o When(/\ concept.source # "manual"
          /\ concept.confidence.some
          /\ (concept.confidence.v < 0 \/ concept.confidence.v > 10),
          InvalidConfidence(concept.id))

\* Lines 59-79: the findings of one concept, conceptIds being the ids of
\* the concepts before it.
ConceptErrors(concept, conceptIds) ==
  When(concept.id = "", IdRequired)
  \o When(concept.key = "", KeyRequired)
  \o When(concept.name = "", NameRequired)
  \o When(concept.id \in conceptIds, DuplicateId(concept.id))
  \o When(concept.source = "discovered" /\ ~concept.confidence.some,
          DiscoveredNeedsConfidence(concept.id))
  \o When(concept.source = "manual" /\ concept.confidence.some,
          ManualHasConfidence(concept.id))
  \o When(concept.confidence.some
          /\ (concept.confidence.v < 0 \/ concept.confidence.v > 10),
          InvalidConfidence(concept.id))

\* Lines 58-80: the loop over graph.concepts, from the i-th concept on.
RECURSIVE ConceptLoop(_, _, _)
ConceptLoop(concepts, i, conceptIds) ==
  IF i > Len(concepts) THEN <<>>
  ELSE ConceptErrors(concepts[i], conceptIds)
       \o ConceptLoop(concepts, i + 1, conceptIds \cup {concepts[i].id})

\* Lines 83-96: the findings of one relationship.
RelationshipErrors(rel, conceptIds) ==
  When(StripPrefix(rel.from) \notin conceptIds, NonExistentConcept(RefString(rel.from)))
  \o When(StripPrefix(rel.to) \notin conceptIds, NonExistentConcept(RefString(rel.to)))
  \o When(rel.weight < 0 \/ rel.weight > 10, InvalidWeight)
  \o When(RefString(rel.from) = RefString(rel.to), SelfReference)

\* Lines 82-97: the loop over graph.relationships, from the i-th on.
RECURSIVE RelationshipLoop(_, _, _)
RelationshipLoop(relationships, i, conceptIds) ==
  IF i > Len(relationships) THEN <<>>
  ELSE RelationshipErrors(relationships[i], conceptIds)
       \o RelationshipLoop(relationships, i + 1, conceptIds)

validateConcepts(graph) ==
  ConceptLoop(graph.concepts, 1, {})
  \o RelationshipLoop(graph.relationships, 1,
                      {graph.concepts[i].id : i \in 1..Len(graph.concepts)})

(***************************************************************************)
(* CONCEPT HIERARCHY  (src/src/concepts.ts, buildConceptHierarchy)         *)
(*                                                                         *)
(* The function is recursive on (graph, key) alone: a call whose key is    *)
(* the key of a call still pending repeats that call and the recursion     *)
(* never ends, which the runtime ends with a RangeError (call stack        *)
(* exhausted).  pending holds the keys of the pending calls.               *)
(***************************************************************************)
HierIds == <<"a", "b", "c", "d">>

HierKeys == {"ka", "kb"}

RootKeys == HierKeys \cup {"kz"}

FromRefs == {ConceptRef(TRUE, "a"), ConceptRef(FALSE, "b"), ConceptRef(TRUE, "c")}

ToRefs == {ConceptRef(TRUE, "a"), ConceptRef(FALSE, "a"), ConceptRef(TRUE, "b")}

\* The relationships a graph is written from: 'parent' between the ends
\* above, and one of another kind.
HierRelationships ==
  {ConceptRelationship(from, to, "parent", 5) : from \in FromRefs, to \in ToRefs}
  \cup {ConceptRelationship(ConceptRef(FALSE, "b"), ConceptRef(TRUE, "a"), "related", 5)}

NullHierarchy == [kind |-> "null"]

RangeError == [kind |-> "RangeError"]

Hierarchy(concept, children) ==
  [kind |-> "node", concept |-> concept, children |-> children]

\* Array.prototype.find: the index of the first element that satisfies
\* Test, 0 when there is none.
Find(seq, Test(_)) ==
  IF \E i \in 1..Len(seq) : Test(seq[i])
  THEN CHOOSE i \in 1..Len(seq) : Test(seq[i]) /\ \A j \in 1..(i - 1) : ~Test(seq[j])
  ELSE 0

RECURSIVE BuildHierarchy(_, _, _)
BuildHierarchy(g, key, pending) ==
  LET IsRoot(c) == c.key = key
      rootIdx == Find(g.concepts, IsRoot)
  IN IF rootIdx = 0 THEN NullHierarchy
     ELSE IF key \in pending THEN RangeError
     ELSE
       LET root == g.concepts[rootIdx]
           ParentEdge(r) == RefString(r.to) = "concept:@" \o root.id /\ r.kind = "parent"
           edges == SelectSeq(g.relationships, ParentEdge)
           mapped ==
             [i \in 1..Len(edges) |->
                LET childId == StripPrefix(edges[i].from)
                    IsChild(c) == c.id = childId
                    childIdx == Find(g.concepts, IsChild)
                IN IF childIdx = 0 THEN NullHierarchy
                   ELSE BuildHierarchy(g, g.concepts[childIdx].key, pending \cup {key})]
           NotNull(h) == h.kind # "null"
       IN IF \E i \in 1..Len(mapped) : mapped[i].kind = "RangeError"
          THEN RangeError
          ELSE Hierarchy(root, SelectSeq(mapped, NotNull))

buildConceptHierarchy(g, key) == BuildHierarchy(g, key, {})

(***************************************************************************)
(* LINK REGISTRY  (src/src/primitives/stronglinks/registry.ts)             *)
(*                                                                         *)
(* A Map is the sequence of its entries in insertion order.  A link target *)
(* is its id and its url; a target of a configuration has no id ("").      *)
(***************************************************************************)
LinkIds == {"x", "y"}

Urls == {"u", "v"}

LinkTarget(id, url) == [id |-> id, url |-> url]

NullTarget == [null |-> TRUE]

MapEntry(key, value) == [key |-> key, value |-> value]

MapHas(map, key) == \E i \in 1..Len(map) : map[i].key = key

\* Map.prototype.set: the value of an entry is replaced in place, a new
\* entry goes to the end.
MapSet(map, key, value) ==
  IF MapHas(map, key)
  THEN [i \in 1..Len(map) |-> IF map[i].key = key THEN MapEntry(key, value) ELSE map[i]]
  ELSE Append(map, MapEntry(key, value))

\* Mutant of register: the id of the target is kept ({id, ...target}).
register_KeepsTargetId(map, id, target) ==
  MapSet(map, id, target)

\* Line 18: this.links.set(id, {...target, id}).
register(map, id, target) ==
  MapSet(map, id, [target EXCEPT !.id = id])

\* Line 22: this.links.get(id) || null.
resolve(map, id) ==
  IF MapHas(map, id) THEN map[CHOOSE i \in 1..Len(map) : map[i].key = id].value
  ELSE NullTarget

has(map, id) == MapHas(map, id)

\* Line 30: Array.from(this.links.values()).
all(map) == [i \in 1..Len(map) |-> map[i].value]

\* Lines 36-40: the entries of config are registered in their order.
RECURSIVE loadFromConfig(_, _)
loadFromConfig(map, config) ==
  IF config = <<>> THEN map
  ELSE loadFromConfig(register(map, Head(config).key,
                               [Head(config).value EXCEPT !.id = Head(config).key]),
                      Tail(config))

\* The configurations: objects of one or two keys, in the order of
\* Object.entries.
Configs ==
  {<<MapEntry(id, LinkTarget("", url))>> : id \in LinkIds, url \in Urls}
  \cup {<<MapEntry("x", LinkTarget("", u1)), MapEntry("y", LinkTarget("", u2))>> :
          u1 \in Urls, u2 \in Urls}

(***************************************************************************)
(* AGGREGATOR  (src/unnamed/part_009, aggregatePageMetadata)               *)
(*                                                                         *)
(* Boosts are in tenths, token budgets are naturals.  A quotient is kept   *)
(* as numerator and denominator and compared by cross-multiplication.      *)
(***************************************************************************)
Absent == [kind |-> "absent", v |-> <<>>]

OneString(x) == [kind |-> "string", v |-> <<x>>]

Array(xs) == [kind |-> "array", v |-> xs]

\* A return or generate block.
Budget(max_tokens, min_tokens) ==
  [present |-> TRUE, max_tokens |-> max_tokens, min_tokens |-> min_tokens]

NoBudget == [present |-> FALSE, max_tokens |-> None, min_tokens |-> None]

Boosts == {None, Some(0), Some(10), Some(12)}

Returns == {NoBudget, Budget(Some(0), None), Budget(Some(200), Some(100)),
            Budget(Some(800), Some(100))}

SemanticsKeys ==
  <<"tasks", "problems", "solutions", "outcomes",
    "validations", "next_steps", "impacts", "features">>

NoSemantics == <<>>

SemanticsEntry(key, values) == [key |-> key, values |-> values]

\* What a segment carries besides its boost and its return block.
Others ==
  { [concepts |-> Absent, audience_role |-> Absent, semantics |-> NoSemantics,
     generate |-> NoBudget, segment_checksum |-> ""],
    [concepts |-> OneString("c"), audience_role |-> Array(<<"dev", "ops">>),
     semantics |-> <<SemanticsEntry("tasks", <<"t">>), SemanticsEntry("custom", <<"u">>)>>,
     generate |-> Budget(Some(50), Some(10)), segment_checksum |-> "h1"],
    [concepts |-> Array(<<"c", "d">>), audience_role |-> OneString("dev"),
     semantics |-> <<SemanticsEntry("features", <<"t", "f">>)>>,
     generate |-> NoBudget, segment_checksum |-> "h2"] }

AnnotatedSegment(boost, return, other) ==
  [boost |-> boost, return |-> return,
   concepts |-> other.concepts, audience_role |-> other.audience_role,
   semantics |-> other.semantics, generate |-> other.generate,
   segment_checksum |-> other.segment_checksum]

AnnotationSemantics == {NoSemantics, <<SemanticsEntry("tasks", <<"t0">>)>>}

\* set.add(v) on a Set that keeps insertion order.
SetAdd(set, v) == IF \E i \in 1..Len(set) : set[i] = v THEN set ELSE Append(set, v)

RECURSIVE SetAddAll(_, _)
SetAddAll(set, values) ==
  IF values = <<>> THEN set ELSE SetAddAll(SetAdd(set, Head(values)), Tail(values))

\* Lines 79-84 and 87-92: a string-or-list field as a list; an absent
\* field and an empty string add nothing.
ListOf(field) ==
  IF field.kind = "absent" \/ field = OneString("") THEN <<>> ELSE field.v

\* Lines 71-75 and 96-100: the values of the entries under one known key.
RECURSIVE SemanticsValues(_, _)
SemanticsValues(entries, key) ==
  IF entries = <<>> THEN <<>>
  ELSE (IF Head(entries).key = key THEN Head(entries).values ELSE <<>>)
       \o SemanticsValues(Tail(entries), key)

\* x || 0 of an optional number.
OrZero(x) == IF x.some THEN x.v ELSE 0

\* Mutant of BoostOf: a declared boost is taken as declared, 0 included.
BoostOf_Declared(segment) == IF segment.boost.some THEN segment.boost.v ELSE 10

\* Line 121: segment.boost || 1.0.
BoostOf(segment) ==
  IF segment.boost.some /\ segment.boost.v # 0 THEN segment.boost.v ELSE 10

EmptyTotals ==
  [concepts |-> <<>>, audienceRoles |-> <<>>,
   semantics |-> [k \in 1..Len(SemanticsKeys) |-> <<>>],
   totalReturnMax |-> 0, totalReturnMin |-> 0,
   totalGenerateMax |-> 0, totalGenerateMin |-> 0,
   weightedBoostSum |-> 0, totalTokens |-> 0, segmentChecksums |-> <<>>]

\* Lines 77-128: the body of the loop over annotations.segments.
FoldSegment(t, segment) ==
  [concepts |-> SetAddAll(t.concepts, ListOf(segment.concepts)),
   audienceRoles |-> SetAddAll(t.audienceRoles, ListOf(segment.audience_role)),
   semantics |-> [k \in 1..Len(SemanticsKeys) |->
                    SetAddAll(t.semantics[k],
                              SemanticsValues(segment.semantics, SemanticsKeys[k]))],
   totalReturnMax |-> t.totalReturnMax + OrZero(segment.return.max_tokens),
   totalReturnMin |-> t.totalReturnMin + OrZero(segment.return.min_tokens),
   totalGenerateMax |-> t.totalGenerateMax + OrZero(segment.generate.max_tokens),
   totalGenerateMin |-> t.totalGenerateMin + OrZero(segment.generate.min_tokens),
   weightedBoostSum |-> t.weightedBoostSum
                          + BoostOf(segment) * OrZero(segment.return.max_tokens),
   totalTokens |-> t.totalTokens + OrZero(segment.return.max_tokens),
   segmentChecksums |-> IF segment.segment_checksum # ""
                        THEN Append(t.segmentChecksums, segment.segment_checksum)
                        ELSE t.segmentChecksums]

RECURSIVE FoldSegments(_, _, _)
FoldSegments(t, segs, i) ==
  IF i > Len(segs) THEN t ELSE FoldSegments(FoldSegment(t, segs[i]), segs, i + 1)

\* segmentChecksums.join('|')
RECURSIVE Join(_)
Join(strings) ==
  IF strings = <<>> THEN ""
  ELSE IF Len(strings) = 1 THEN strings[1]
  ELSE strings[1] \o "|" \o Join(Tail(strings))

\* Lines 131-133: '' or the digest of the joined checksums.
PageChecksum(segmentChecksums) ==
  IF Len(segmentChecksums) > 0
  THEN [prefix |-> "sha256:", digestOf |-> Join(segmentChecksums)]
  ELSE [prefix |-> "", digestOf |-> ""]

Quotient(num, den) == [num |-> num, den |-> den]

\* x || undefined of a number.
OrUndefined(x) == IF x = 0 THEN None ELSE Some(x)

\* Lines 137-141: the known keys whose set is not empty, in their order.
RECURSIVE SemanticsOut(_, _)
SemanticsOut(semantics, k) ==
  IF k > Len(SemanticsKeys) THEN <<>>
  ELSE (IF semantics[k] # <<>> THEN <<SemanticsEntry(SemanticsKeys[k], semantics[k])>>
        ELSE <<>>)
       \o SemanticsOut(semantics, k + 1)

EmptyAnnotations == [semantics |-> NoSemantics, segments |-> <<>>]

aggregatePageMetadata(annotations) ==
  LET start == [EmptyTotals EXCEPT
                  !.semantics = [k \in 1..Len(SemanticsKeys) |->
                                   SetAddAll(<<>>, SemanticsValues(annotations.semantics,
                                                                   SemanticsKeys[k]))]]
      t == FoldSegments(start, annotations.segments, 1)
  IN [concepts |-> t.concepts,
      audience_role |-> t.audienceRoles,
      semantics |-> SemanticsOut(t.semantics, 1),
      token_budget |-> [total_return_max |-> t.totalReturnMax,
                        total_return_min |-> t.totalReturnMin,
                        total_generate_max |-> OrUndefined(t.totalGenerateMax),
                        total_generate_min |-> OrUndefined(t.totalGenerateMin)],
      average_boost |-> IF t.totalTokens > 0
                        THEN Quotient(t.weightedBoostSum, t.totalTokens)
                        ELSE Quotient(10, 1),
      segment_count |-> Len(annotations.segments),
      segment_checksums |-> t.segmentChecksums,
      page_checksum |-> PageChecksum(t.segmentChecksums)]

\* The hex digest of a string, kept as the string it was computed from:
\* the digest is taken to be free of collisions.
Digest(input) == "H(" \o input \o ")"

\* The page checksum as the string the page aggregation holds.
ChecksumString(checksum) ==
  IF checksum.prefix = "" THEN "" ELSE checksum.prefix \o Digest(checksum.digestOf)

ProjectSemanticsKeys ==
  <<"tasks", "problems", "solutions", "outcomes", "features", "personas">>

\* Lines 189-192: the values of one entry of a page's semantics are added
\* under its key, which is added first when the project has not seen it.
AddSemantics(semantics, entry) ==
  LET known == \E i \in 1..Len(semantics) : semantics[i].key = entry.key
      withKey == IF known THEN semantics
                 ELSE Append(semantics, SemanticsEntry(entry.key, <<>>))
  IN [i \in 1..Len(withKey) |->
        IF withKey[i].key = entry.key
        THEN SemanticsEntry(entry.key, SetAddAll(withKey[i].values, entry.values))
        ELSE withKey[i]]

RECURSIVE AddAllSemantics(_, _)
AddAllSemantics(semantics, entries) ==
  IF entries = <<>> THEN semantics
  ELSE AddAllSemantics(AddSemantics(semantics, Head(entries)), Tail(entries))

EmptyProjectTotals ==
  [concepts |-> <<>>, audienceRoles |-> <<>>,
   semantics |-> [k \in 1..Len(ProjectSemanticsKeys) |->
                    SemanticsEntry(ProjectSemanticsKeys[k], <<>>)],
   totalReturnMax |-> 0, totalReturnMin |-> 0,
   totalGenerateMax |-> 0, totalGenerateMin |-> 0,
   weightedBoostSum |-> 0, totalTokens |-> 0, totalSegments |-> 0,
   pageChecksums |-> <<>>, pageSummaries |-> <<>>]

\* Lines 182-209: the body of the loop over pages.  The average boost of a
\* page is weightedBoostSum / total_return_max or, the latter being 0, 1.0:
\* its product with total_return_max is a whole number of tenths.
FoldPage(t, page) ==
  LET pageAgg == aggregatePageMetadata(page)
  IN [concepts |-> SetAddAll(t.concepts, pageAgg.concepts),
      audienceRoles |-> SetAddAll(t.audienceRoles, pageAgg.audience_role),
      semantics |-> AddAllSemantics(t.semantics, pageAgg.semantics),
      totalReturnMax |-> t.totalReturnMax + pageAgg.token_budget.total_return_max,
      totalReturnMin |-> t.totalReturnMin + pageAgg.token_budget.total_return_min,
      totalGenerateMax |-> t.totalGenerateMax + OrZero(pageAgg.token_budget.total_generate_max),
      totalGenerateMin |-> t.totalGenerateMin + OrZero(pageAgg.token_budget.total_generate_min),
      weightedBoostSum |-> t.weightedBoostSum
                             + (pageAgg.average_boost.num * pageAgg.token_budget.total_return_max)
                                 \div pageAgg.average_boost.den,
      totalTokens |-> t.totalTokens + pageAgg.token_budget.total_return_max,
      totalSegments |-> t.totalSegments + pageAgg.segment_count,
      pageChecksums |-> Append(t.pageChecksums, ChecksumString(pageAgg.page_checksum)),
      pageSummaries |-> Append(t.pageSummaries, pageAgg)]

RECURSIVE FoldPages(_, _, _)
FoldPages(t, pageList, i) ==
  IF i > Len(pageList) THEN t ELSE FoldPages(FoldPage(t, pageList[i]), pageList, i + 1)

\* Line 212: the digest of the joined page checksums, whatever their number.
ProjectChecksum(pageChecksums) == [prefix |-> "sha256:", digestOf |-> Join(pageChecksums)]

NonEmptyEntry(entry) == entry.values # <<>>

aggregateProjectMetadata(pageList, projectId) ==
  LET t == FoldPages(EmptyProjectTotals, pageList, 1)
  IN [project |-> projectId,
      project_aggregation |->
        [concepts |-> t.concepts,
         audience_role |-> t.audienceRoles,
         semantics |-> SelectSeq(t.semantics, NonEmptyEntry),
         token_budget |-> [total_return_max |-> t.totalReturnMax,
                           total_return_min |-> t.totalReturnMin,
                           total_generate_max |-> OrUndefined(t.totalGenerateMax),
                           total_generate_min |-> OrUndefined(t.totalGenerateMin)],
         average_boost |-> IF t.totalTokens > 0
                           THEN Quotient(t.weightedBoostSum, t.totalTokens)
                           ELSE Quotient(10, 1),
         page_count |-> Len(pageList),
         segment_count |-> t.totalSegments,
         page_checksums |-> t.pageChecksums,
         project_checksum |-> ProjectChecksum(t.pageChecksums)],
      pages |-> t.pageSummaries]

\* The segments the pages of a project are written from.
ProjectSegments ==
  {AnnotatedSegment(IF other.segment_checksum = "h1" THEN Some(12) ELSE None,
                    IF other.segment_checksum = "h1" THEN Budget(Some(800), Some(100))
                    ELSE NoBudget,
                    other) : other \in Others}

NoAggregation == [none |-> TRUE]

(***************************************************************************)
(* NAVIGATION TREE  (src/src/primitives/navigation/types.ts:89-187)        *)
(*                                                                         *)
(* An item is its id, its children (an optional list) and its              *)
(* metadata.versions (an optional list); the other fields are carried      *)
(* along unchanged and left out.                                           *)
(***************************************************************************)
NavIds == <<"a", "b", "c", "d", "e", "f">>

Versions == {"v1", "v2"}

NoList == [some |-> FALSE, v |-> <<>>]

List(l) == [some |-> TRUE, v |-> l]

\* The version lists an item or a tree carries.
VersionLists == {NoList, List(<<"v1">>), List(<<"v2">>)}

NavigationItem(id, versions, children) ==
  [id |-> id, versions |-> versions, children |-> children]

NavigationTree(versions, items) == [versions |-> versions, items |-> items]

\* array.includes(x)
Includes(array, x) == \E i \in 1..Len(array) : array[i] = x

FlatNavigationItem(item, level, path, parentId) ==
  [id |-> item.id, versions |-> item.versions, children |-> item.children,
   level |-> level, path |-> path, parentId |-> parentId,
   hasChildren |-> item.children.some /\ Len(item.children.v) > 0]

\* Lines 92-113: traverse, from the k-th of items on.
RECURSIVE Traverse(_, _, _, _, _)
Traverse(items, k, level, path, parentId) ==
  IF k > Len(items) THEN <<>>
  ELSE LET item == items[k]
           itemPath == Append(path, item.id)
       IN <<FlatNavigationItem(item, level, itemPath, parentId)>>
          \o (IF item.children.some
              THEN Traverse(item.children.v, 1, level + 1, itemPath, Str(item.id))
              ELSE <<>>)
          \o Traverse(items, k + 1, level, path, parentId)

\* Mutant of flattenTree: the roots are at level 1.
flattenTree_RootsAtLevelOne(tree) == Traverse(tree.items, 1, 1, <<>>, NullStr)

flattenTree(tree) == Traverse(tree.items, 1, 0, <<>>, NullStr)

\* Lines 172-176: the filter predicate.
VersionMatches(item, tree, version) ==
  LET itemVersions == IF item.versions.some THEN item.versions ELSE tree.versions
  IN ~itemVersions.some \/ Includes(itemVersions.v, version)

\* Lines 170-181: filterItems.
RECURSIVE filterItems(_, _, _)
filterItems(items, tree, version) ==
  LET kept == SelectSeq(items, LAMBDA item : VersionMatches(item, tree, version))
  IN [k \in 1..Len(kept) |->
        [kept[k] EXCEPT !.children =
           IF @.some THEN List(filterItems(@.v, tree, version)) ELSE NoList]]

\* Mutant of filterByVersion: the tree's own allow-list is not looked at
\* first.
filterByVersion_NoTreeCheck(tree, version) ==
  [tree EXCEPT !.items = filterItems(tree.items, tree, version)]

filterByVersion(tree, version) ==
  IF tree.versions.some /\ ~Includes(tree.versions.v, version)
  THEN [tree EXCEPT !.items = <<>>]
  ELSE [tree EXCEPT !.items = filterItems(tree.items, tree, version)]

\* The number of items of a forest.
RECURSIVE ItemCount(_)
ItemCount(items) ==
  IF items = <<>> THEN 0
  ELSE 1 + (IF Head(items).children.some THEN ItemCount(Head(items).children.v) ELSE 0)
       + ItemCount(Tail(items))

\* The depth of the last item of the deepest level along the last items.
RECURSIVE SpineDepth(_)
SpineDepth(items) ==
  IF items = <<>> THEN 0
  ELSE LET last == items[Len(items)]
       IN 1 + (IF last.children.some THEN SpineDepth(last.children.v) ELSE 0)

\* items with one more item, as the last one depth levels below the roots
\* (under the last item of each level above).
RECURSIVE AppendAtDepth(_, _, _)
AppendAtDepth(items, depth, item) ==
  IF depth = 0 THEN Append(items, item)
  ELSE [items EXCEPT ![Len(items)].children =
          List(AppendAtDepth(@.v, depth - 1, item))]

EmptyTree == NavigationTree(NoList, <<>>)

(***************************************************************************)
(* State.                                                                  *)
(***************************************************************************)
VARIABLES
  docText,     \* the document handed to the byte-offset parseSegments
  parsed,      \* what parseSegments returned or threw
  segPc,       \* "edit" while the document is written, "parsed" afterwards
  lines,          \* markdown.split('\n') of the line-based parseSegments
  lineIdx,        \* i, the index of the next line (0-based as in the source)
  currentSegment, \* the open segment, or NoSegment for null
  contentLines,   \* the lines collected for the open segment
  segments,       \* the segments pushed so far
  lineErr,        \* the error thrown, if any
  linePc,         \* "scan" in the loop, "returned" or "thrown" afterwards
  refArgs,        \* the components handed to buildSegmentRef
  refStr,         \* a reference string
  refParsed,      \* what parseSegmentRef returned for refStr
  refPc,          \* "args", "built", "parsed"
  journey,        \* the journey handed to validateJourney
  journeyResult,  \* what validateJourney returned or that it threw
  journeyPc,      \* "input", "validated"
  linkage,        \* the linkage document
  linkErrors,     \* what validateBidirectionalConsistency returned last
  linkBefore,     \* what it returned before the last reverse entry was added
  linkPc,         \* "edit", "validated", "revalidated"
  graph,          \* the concept graph
  conceptErrors,  \* what validateConcepts returned
  conceptPc,      \* "edit", "validated"
  annotations,    \* the page's annotations
  aggregation,    \* what aggregatePageMetadata returned
  aggPc,          \* "edit", "aggregated"
  valText,        \* the document to validate
  valDoc,         \* its ParsedDoc
  strictErrors,   \* what validateStrict returned
  looseErrors,    \* what validateLoose returned
  valPc,          \* "edit", "validated"
  resRef,         \* the reference string handed to the reference functions
  resContext,     \* the ReferenceContext
  resParsed,      \* what parseSegmentRef returned for resRef
  resolved,       \* what resolveReference returned or threw
  projParsed,     \* what parseProjectRef returned for resRef
  resPc,          \* "edit", "resolved"; "project", "projectParsed"
  navTree,        \* the navigation tree
  navVersion,     \* the target version of filterByVersion
  navFlat,        \* what flattenTree returned
  navFiltered,    \* what filterByVersion returned
  navPc,          \* "edit", "done"
  hierGraph,      \* the concept graph a hierarchy is built from
  rootKey,        \* the root key asked for
  hierarchy,      \* what buildConceptHierarchy gave
  hierPc,         \* "idle", "edit" or "done"
  pages,          \* the annotations of the pages of a project
  projectAggregation,\* what aggregateProjectMetadata gave
  projAggPc,      \* "idle", "edit" or "aggregated"
  dfsNodes,       \* the node list handed to the cycle check
  dfsErrors,      \* the findings of validateJourney so far
  visited,        \* the ids the traversal has entered
  recStack,       \* the ids in progress
  callStack,      \* the pending calls of dfs: node id and next neighbor
  rootIdx,        \* position of the loop over the nodes
  cycleFound,     \* what hasCycles returned
  dfsPc,          \* "idle", "input", "run" or "done"
  links,          \* the Map of the registry: its entries in insertion order
  registrations,  \* the registrations made, in call order: key and target handed over
  regPc           \* "idle" or "open"

segVars == <<docText, parsed, segPc>>

lineVars == <<lines, lineIdx, currentSegment, contentLines, segments, lineErr, linePc>>

refVars == <<refArgs, refStr, refParsed, refPc>>

journeyVars == <<journey, journeyResult, journeyPc>>

linkVars == <<linkage, linkErrors, linkBefore, linkPc>>

conceptVars == <<graph, conceptErrors, conceptPc>>

aggVars == <<annotations, aggregation, aggPc>>

projAggVars == <<pages, projectAggregation, projAggPc>>

regVars == <<links, registrations, regPc>>

dfsVars == <<dfsNodes, dfsErrors, visited, recStack, callStack, rootIdx, cycleFound, dfsPc>>

valVars == <<valText, valDoc, strictErrors, looseErrors, valPc>>

resVars == <<resRef, resContext, resParsed, resolved, projParsed, resPc>>

navVars == <<navTree, navVersion, navFlat, navFiltered, navPc>>

hierVars == <<hierGraph, rootKey, hierarchy, hierPc>>

vars == <<docText, parsed, segPc,
          lines, lineIdx, currentSegment, contentLines, segments, lineErr, linePc,
          refArgs, refStr, refParsed, refPc,
          journey, journeyResult, journeyPc,
          linkage, linkErrors, linkBefore, linkPc,
          graph, conceptErrors, conceptPc,
          annotations, aggregation, aggPc,
          valText, valDoc, strictErrors, looseErrors, valPc,
          resRef, resContext, resParsed, resolved, projParsed, resPc,
          navTree, navVersion, navFlat, navFiltered, navPc,
          hierGraph, rootKey, hierarchy, hierPc,
          pages, projectAggregation, projAggPc,
          dfsNodes, dfsErrors, visited, recStack, callStack, rootIdx, cycleFound, dfsPc,
          links, registrations, regPc>>

SegIdle ==
  /\ docText = [frontmatter |-> NoFrontmatter, content |-> <<>>]
  /\ parsed = NoParse
  /\ segPc = "idle"

LineIdle ==
  /\ lines = <<>>
  /\ lineIdx = 0
  /\ currentSegment = NoSegment
  /\ contentLines = <<>>
  /\ segments = <<>>
  /\ lineErr = NoLineErr
  /\ linePc = "idle"

ConceptIdle ==
  /\ graph = EmptyGraph
  /\ conceptErrors = <<>>
  /\ conceptPc = "idle"

HierIdle ==
  /\ hierGraph = EmptyGraph
  /\ rootKey = "ka"
  /\ hierarchy = NullHierarchy
  /\ hierPc = "idle"

NavIdle ==
  /\ navTree = EmptyTree
  /\ navVersion = "v1"
  /\ navFlat = <<>>
  /\ navFiltered = EmptyTree
  /\ navPc = "idle"

ResIdle ==
  /\ resRef = <<>>
  /\ resContext = NoContext
  /\ resParsed = InvalidRef
  /\ resolved = NotResolved
  /\ projParsed = NoProjectRef
  /\ resPc = "idle"

ValIdle ==
  /\ valText = [frontmatter |-> NoFrontmatter, content |-> <<>>]
  /\ valDoc = NoParse
  /\ strictErrors = <<>>
  /\ looseErrors = <<>>
  /\ valPc = "idle"

RegIdle ==
  /\ links = <<>>
  /\ registrations = <<>>
  /\ regPc = "idle"

DfsIdle ==
  /\ dfsNodes = <<>>
  /\ dfsErrors = <<>>
  /\ visited = {}
  /\ recStack = {}
  /\ callStack = <<>>
  /\ rootIdx = 1
  /\ cycleFound = FALSE
  /\ dfsPc = "idle"

ProjAggIdle ==
  /\ pages = <<>>
  /\ projectAggregation = NoAggregation
  /\ projAggPc = "idle"

AggIdle ==
  /\ annotations = EmptyAnnotations
  /\ aggregation = NoAggregation
  /\ aggPc = "idle"

LinkIdle ==
  /\ linkage = EmptyLinkage
  /\ linkErrors = <<>>
  /\ linkBefore = <<>>
  /\ linkPc = "idle"

JourneyIdle ==
  /\ journey = NoJourney
  /\ journeyResult = NoValidation
  /\ journeyPc = "idle"

NoArgs == [project |-> <<>>, pageId |-> <<>>, segmentId |-> <<>>]

RefIdle ==
  /\ refArgs = NoArgs
  /\ refStr = <<>>
  /\ refParsed = InvalidRef
  /\ refPc = "idle"

(***************************************************************************)
(* SpecSeg: a document is written token by token and then parsed.          *)
(***************************************************************************)
SegInit ==
  /\ docText \in {[frontmatter |-> f, content |-> <<>>] : f \in Frontmatters}
  /\ parsed = NoParse
  /\ segPc = "edit"

AppendToken ==
  /\ segPc = "edit"
  /\ Len(docText.content) < MaxTokens
  /\ \E t \in Tokens : docText' = [docText EXCEPT !.content = Append(@, t)]
  /\ UNCHANGED <<parsed, segPc>>
  /\ UNCHANGED <<lineVars, refVars, journeyVars, linkVars, conceptVars, aggVars, valVars, resVars, navVars, hierVars, projAggVars, dfsVars, regVars>>

ParseSegments ==
  /\ segPc = "edit"
  /\ parsed' = parseSegments(docText)
  /\ segPc' = "parsed"
  /\ UNCHANGED docText
  /\ UNCHANGED <<lineVars, refVars, journeyVars, linkVars, conceptVars, aggVars, valVars, resVars, navVars, hierVars, projAggVars, dfsVars, regVars>>

InitSeg == SegInit /\ LineIdle /\ RefIdle /\ JourneyIdle /\ LinkIdle /\ ConceptIdle /\ AggIdle /\ ValIdle /\ ResIdle /\ NavIdle /\ HierIdle /\ ProjAggIdle /\ DfsIdle /\ RegIdle

NextSeg == AppendToken \/ ParseSegments

SpecSeg == InitSeg /\ [][NextSeg]_vars

(***************************************************************************)
(* Properties of the byte-offset parser.                                   *)
(***************************************************************************)
content == docText.content

IsStartMarker(t) == t.kind \in {"start", "startEnd"}

IsEndMarker(t) == t.kind \in {"end", "startEnd"}

StartTokens(c) == SelectSeq(c, IsStartMarker)

MarkerCount(c) == Len(SelectSeq(c, IsStartMarker)) + Len(SelectSeq(c, IsEndMarker))

SegmentIds(p) == [i \in 1..Len(p.segments) |-> p.segments[i].id]

\* C1: on success the segments are as many as the start markers (half of
\* all markers), the i-th segment has the id of the i-th start marker of
\* the text, and no other frontmatter changes the ids or their order.
C1_SegmentsInDocumentOrder ==
  (segPc = "parsed" /\ parsed.ok) =>
    /\ Len(parsed.segments) = Len(StartTokens(content))
    /\ 2 * Len(parsed.segments) = MarkerCount(content)
    /\ \A i \in 1..Len(parsed.segments) : parsed.segments[i].id = StartTokens(content)[i].id
    /\ \A f \in Frontmatters :
         LET other == parseSegments([docText EXCEPT !.frontmatter = f])
         IN other.ok /\ SegmentIds(other) = SegmentIds(parsed)

\* Witness of C1: segments B then A in the text, specs listed A then B.
C1_Witness ==
  /\ segPc = "parsed" /\ parsed.ok
  /\ SegmentIds(parsed) = <<"B", "A">>
  /\ Len(parsed.specs) = 2 /\ parsed.specs[1].id = "A" /\ parsed.specs[2].id = "B"

\* Nesting by position (rule 3 of the pairing): the (i+1)-th start marker
\* begins before the i-th end marker.
NestedAt(c, i) ==
  /\ i + 1 <= Len(startMatches(c))
  /\ i <= Len(endMatches(c))
  /\ startMatches(c)[i + 1].index < endMatches(c)[i].index

PosNested(c) == \E i \in 1..Len(c) : NestedAt(c, i)

FirstNested(c) == CHOOSE i \in 1..Len(c) : NestedAt(c, i) /\ \A j \in 1..(i - 1) : ~NestedAt(c, j)

OrderingBadAt(c, j) ==
  endMatches(c)[j].index < startMatches(c)[j].index + startMatches(c)[j].length

\* C2 as claimed: every nested document fails with the nesting error that
\* names both ids.
C2_NestingAlwaysNestingError ==
  (segPc = "parsed" /\ PosNested(content)) =>
    /\ ~parsed.ok
    /\ parsed.err = NestedErr(startMatches(content)[FirstNested(content) + 1].id,
                              startMatches(content)[FirstNested(content)].id)

\* C2 amended: a nested document never parses; it fails with the nesting
\* error naming both ids when the marker counts are equal and no pair up to
\* the nested one fails the ordering check, and otherwise with the count or
\* the ordering error, which take precedence.
C2_NestingNeverFlattened ==
  (segPc = "parsed" /\ PosNested(content)) =>
    LET i == FirstNested(content)
        reached == /\ Len(startMatches(content)) = Len(endMatches(content))
                   /\ \A j \in 1..i : ~OrderingBadAt(content, j)
    IN /\ ~parsed.ok
       /\ parsed.segments = <<>>
       /\ reached => parsed.err = NestedErr(startMatches(content)[i + 1].id,
                                            startMatches(content)[i].id)
       /\ ~reached => parsed.err.kind \in {"Mismatched", "Ordering"}

\* Witness of C2: start A, text, start B, end, end fails naming B and A.
C2_Witness ==
  /\ segPc = "parsed"
  /\ content = <<StartToken("A"), TextToken, StartToken("B"), EndToken, EndToken>>
  /\ parsed.err = NestedErr("B", "A")

\* A left-to-right scan with a counter of open segments: "loneEnd" when an
\* end marker is met with none open, "unclosed" when the text ends with one
\* open, "balanced" otherwise.
RECURSIVE RefScan(_, _, _)
RefScan(c, i, open) ==
  IF i > Len(c) THEN (IF open > 0 THEN "unclosed" ELSE "balanced")
  ELSE IF c[i].kind = "start" THEN RefScan(c, i + 1, open + 1)
  ELSE IF c[i].kind = "end"
       THEN (IF open = 0 THEN "loneEnd" ELSE RefScan(c, i + 1, open - 1))
  ELSE RefScan(c, i + 1, open)

NoEmbedded(c) == \A i \in 1..Len(c) : c[i].kind # "startEnd"

Unclosed(c) == NoEmbedded(c) /\ RefScan(c, 1, 0) = "unclosed"

LoneEnd(c) == NoEmbedded(c) /\ RefScan(c, 1, 0) = "loneEnd"

LoneEndDoc == [frontmatter |-> NoFrontmatter, content |-> <<EndToken>>]

UnclosedDoc == [frontmatter |-> NoFrontmatter, content |-> <<StartToken("A")>>]

C10_RangesOrderedAndDisjoint ==
  (segPc = "parsed" /\ parsed.ok) =>
    /\ \A i \in 1..Len(parsed.markers) :
         LET m == parsed.markers[i]
         IN /\ m.startMarkerBegin < m.startMarkerEnd
            /\ m.startMarkerEnd <= m.endMarkerBegin
            /\ m.endMarkerBegin < m.endMarkerEnd
    /\ \A i \in 1..(Len(parsed.markers) - 1) :
         parsed.markers[i].endMarkerEnd <= parsed.markers[i + 1].startMarkerBegin
    /\ \A i \in 1..Len(parsed.segments) :
         /\ parsed.segments[i].startByte <= parsed.segments[i].endByte
         /\ parsed.segments[i].startByte = parsed.markers[i].startMarkerEnd
         /\ parsed.segments[i].endByte = parsed.markers[i].endMarkerBegin

\* Witness of C10: two ranges behind a frontmatter, the first with an empty
\* body, the second directly after it.
C10_Witness ==
  /\ segPc = "parsed" /\ parsed.ok
  /\ parsed.frontmatterEndByte > 0
  /\ Len(parsed.markers) = 2
  /\ parsed.markers[1].startMarkerEnd = parsed.markers[1].endMarkerBegin
  /\ parsed.markers[1].endMarkerEnd = parsed.markers[2].startMarkerBegin
  /\ parsed.segments[2].startByte < parsed.segments[2].endByte

\* The ids of the specs declared in the frontmatter.
DeclaredIds(d) == {d.frontmatter.specs[i].id : i \in 1..Len(d.frontmatter.specs)}

\* C11: whether parseSegments fails does not depend on the frontmatter (the
\* same content parses, or fails with the same marker error, without any
\* spec); on success a segment whose id has no spec has spec = null, and a
\* segment's non-null spec is a spec of the frontmatter listed under the
\* segment's id.
C11_MissingSpecIsNull ==
  segPc = "parsed" =>
    /\ LET bare == parseSegments([docText EXCEPT !.frontmatter = NoFrontmatter])
       IN parsed.ok = bare.ok /\ parsed.err = bare.err
    /\ parsed.ok =>
         \A i \in 1..Len(parsed.segments) :
           LET seg == parsed.segments[i]
           IN /\ seg.id \notin DeclaredIds(docText) => seg.spec = NullSpec
              /\ seg.spec # NullSpec =>
                   /\ seg.spec.id = seg.id
                   /\ \E j \in 1..Len(parsed.specs) : parsed.specs[j] = seg.spec

\* Witness of C11: only A is declared; the text holds segment A, which got
\* its spec, and segment B, which got null.
C11_Witness ==
  /\ segPc = "parsed" /\ parsed.ok
  /\ DeclaredIds(docText) = {"A"}
  /\ SegmentIds(parsed) = <<"A", "B">>
  /\ parsed.segments[1].spec # NullSpec
  /\ parsed.segments[2].spec = NullSpec

(***************************************************************************)
(* SpecLine: the loop of the line-based parseSegments, one line per step.  *)
(***************************************************************************)
LineInit ==
  /\ lines \in SeqsUpTo(Lines, MaxLines)
  /\ lineIdx = 0
  /\ currentSegment = NoSegment
  /\ contentLines = <<>>
  /\ segments = <<>>
  /\ lineErr = NoLineErr
  /\ linePc = "scan"

Throw(e) ==
  /\ lineErr' = e
  /\ linePc' = "thrown"
  /\ UNCHANGED <<lines, lineIdx, currentSegment, contentLines, segments>>

\* Mutant of ScanStartMarker: a start marker met while a segment is open
\* opens its own segment in place of the open one.
ScanStartMarker_ReopensSilently ==
  /\ linePc = "scan" /\ lineIdx < Len(lines)
  /\ startMatch(lines[lineIdx + 1])
  /\ currentSegment' =
       [open |-> TRUE,
        key |-> lines[lineIdx + 1].key,
        type |-> lines[lineIdx + 1].attrs.type,
        audience |-> SplitAudience(lines[lineIdx + 1].attrs.audience),
        startLine |-> lineIdx + 1]
  /\ contentLines' = <<>>
  /\ lineIdx' = lineIdx + 1
  /\ UNCHANGED <<lines, segments, lineErr, linePc>>
  /\ UNCHANGED <<segVars, refVars, journeyVars, linkVars, conceptVars, aggVars, valVars, resVars, navVars, hierVars, projAggVars, dfsVars, regVars>>

\* Lines 26-40: the line holds a start marker.
ScanStartMarker ==
  /\ linePc = "scan" /\ lineIdx < Len(lines)
  /\ startMatch(lines[lineIdx + 1])
  /\ IF currentSegment.open
     THEN Throw([kind |-> "Nested", line |-> lineIdx + 1, key |-> ""])
     ELSE /\ currentSegment' =
               [open |-> TRUE,
                key |-> lines[lineIdx + 1].key,
                type |-> lines[lineIdx + 1].attrs.type,
                audience |-> SplitAudience(lines[lineIdx + 1].attrs.audience),
                startLine |-> lineIdx + 1]
          /\ contentLines' = <<>>
          /\ lineIdx' = lineIdx + 1
          /\ UNCHANGED <<lines, segments, lineErr, linePc>>
  /\ UNCHANGED <<segVars, refVars, journeyVars, linkVars, conceptVars, aggVars, valVars, resVars, navVars, hierVars, projAggVars, dfsVars, regVars>>

\* Lines 43-60: the line holds an end marker and no start marker.
ScanEndMarker ==
  /\ linePc = "scan" /\ lineIdx < Len(lines)
  /\ ~startMatch(lines[lineIdx + 1])
  /\ endMatch(lines[lineIdx + 1])
  /\ IF ~currentSegment.open
     THEN Throw([kind |-> "Unmatched", line |-> lineIdx + 1, key |-> ""])
     ELSE /\ segments' = Append(segments,
               [key |-> currentSegment.key,
                type |-> currentSegment.type,
                audience |-> currentSegment.audience,
                content |-> contentLines,
                startLine |-> currentSegment.startLine,
                endLine |-> lineIdx + 1])
          /\ currentSegment' = NoSegment
          /\ contentLines' = <<>>
          /\ lineIdx' = lineIdx + 1
          /\ UNCHANGED <<lines, lineErr, linePc>>
  /\ UNCHANGED <<segVars, refVars, journeyVars, linkVars, conceptVars, aggVars, valVars, resVars, navVars, hierVars, projAggVars, dfsVars, regVars>>

\* Lines 62-65: any other line is collected if a segment is open.
ScanContent ==
  /\ linePc = "scan" /\ lineIdx < Len(lines)
  /\ ~startMatch(lines[lineIdx + 1])
  /\ ~endMatch(lines[lineIdx + 1])
  /\ contentLines' = IF currentSegment.open
                     THEN Append(contentLines, lines[lineIdx + 1])
                     ELSE contentLines
  /\ lineIdx' = lineIdx + 1
  /\ UNCHANGED <<lines, currentSegment, segments, lineErr, linePc>>
  /\ UNCHANGED <<segVars, refVars, journeyVars, linkVars, conceptVars, aggVars, valVars, resVars, navVars, hierVars, projAggVars, dfsVars, regVars>>

\* Mutant of FinishScan: the check for a segment left open is missing.
FinishScan_NoUnclosedCheck ==
  /\ linePc = "scan" /\ lineIdx = Len(lines)
  /\ linePc' = "returned"
  /\ UNCHANGED <<lines, lineIdx, currentSegment, contentLines, segments, lineErr>>
  /\ UNCHANGED <<segVars, refVars, journeyVars, linkVars, conceptVars, aggVars, valVars, resVars, navVars, hierVars, projAggVars, dfsVars, regVars>>

\* Lines 68-72: after the last line.
FinishScan ==
  /\ linePc = "scan" /\ lineIdx = Len(lines)
  /\ IF currentSegment.open
     THEN Throw([kind |-> "Unclosed", line |-> 0, key |-> currentSegment.key])
     ELSE /\ linePc' = "returned"
          /\ UNCHANGED <<lines, lineIdx, currentSegment, contentLines, segments, lineErr>>
  /\ UNCHANGED <<segVars, refVars, journeyVars, linkVars, conceptVars, aggVars, valVars, resVars, navVars, hierVars, projAggVars, dfsVars, regVars>>

InitLine == LineInit /\ SegIdle /\ RefIdle /\ JourneyIdle /\ LinkIdle /\ ConceptIdle /\ AggIdle /\ ValIdle /\ ResIdle /\ NavIdle /\ HierIdle /\ ProjAggIdle /\ DfsIdle /\ RegIdle

NextLine == ScanStartMarker \/ ScanEndMarker \/ ScanContent \/ FinishScan

SpecLine == InitLine /\ [][NextLine]_vars

(***************************************************************************)
(* Properties of the line-based parser.                                    *)
(***************************************************************************)
\* What the scan of lines c from line i on must end in, by a count of the
\* open segments: "nested", "loneEnd", "unclosed" or "balanced".
RECURSIVE LineOutcome(_, _, _)
LineOutcome(c, i, open) ==
  IF i > Len(c) THEN (IF open > 0 THEN "unclosed" ELSE "balanced")
  ELSE IF c[i].kind \in {"start", "both"}
       THEN (IF open > 0 THEN "nested" ELSE LineOutcome(c, i + 1, open + 1))
  ELSE IF c[i].kind = "end"
       THEN (IF open = 0 THEN "loneEnd" ELSE LineOutcome(c, i + 1, open - 1))
  ELSE LineOutcome(c, i + 1, open)

\* C3: a document that ends with a start marker open fails with the
\* 'Unclosed segment marker' error, one whose end marker is met with no
\* segment open fails with the 'Unmatched end marker' error, and neither
\* yields the other error or a list of segments.
C3_UnclosedAndUnmatchedDistinguished ==
  linePc \in {"returned", "thrown"} =>
    /\ LineOutcome(lines, 1, 0) = "unclosed" <=>
         (linePc = "thrown" /\ lineErr.kind = "Unclosed")
    /\ LineOutcome(lines, 1, 0) = "loneEnd" <=>
         (linePc = "thrown" /\ lineErr.kind = "Unmatched")
    /\ linePc = "returned" => LineOutcome(lines, 1, 0) = "balanced"

\* Witness of C3: a closed segment, then a start marker that is never closed.
C3_Witness ==
  /\ linePc = "thrown"
  /\ lineErr = [kind |-> "Unclosed", line |-> 0, key |-> "B"]
  /\ Len(segments) = 1
  /\ Len(lines) = 4

\* The line about to be scanned holds a start marker while a segment is
\* open.
StartMetWhileOpen ==
  /\ linePc = "scan" /\ lineIdx < Len(lines)
  /\ startMatch(lines[lineIdx + 1])
  /\ currentSegment.open

\* Scanning such a line fails with the 'Nested segment markers' error of
\* that line.
NestedStartFails ==
  StartMetWhileOpen =>
    /\ linePc' = "thrown"
    /\ lineErr' = [kind |-> "Nested", line |-> lineIdx + 1, key |-> ""]

\* The segments closed so far lie one after the other, each between a line
\* with a start marker and a later line with an end marker and no start
\* marker, its content the lines strictly between the two.
SegmentsInOrder ==
  /\ \A i \in 1..Len(segments) :
       /\ 1 <= segments[i].startLine
       /\ segments[i].startLine < segments[i].endLine
       /\ segments[i].endLine <= lineIdx
       /\ startMatch(lines[segments[i].startLine])
       /\ endMatch(lines[segments[i].endLine])
       /\ segments[i].key = lines[segments[i].startLine].key
       /\ segments[i].content =
            SubSeq(lines, segments[i].startLine + 1, segments[i].endLine - 1)
       /\ \A k \in 1..Len(segments[i].content) :
            ~startMatch(segments[i].content[k]) /\ ~endMatch(segments[i].content[k])
  /\ \A i \in 1..(Len(segments) - 1) :
       segments[i].endLine < segments[i + 1].startLine

\* The one open segment, if any, began after the last closed segment and
\* has collected the lines scanned since its start marker.
OneSegmentOpen ==
  currentSegment.open =>
    /\ 1 <= currentSegment.startLine /\ currentSegment.startLine <= lineIdx
    /\ startMatch(lines[currentSegment.startLine])
    /\ Len(segments) > 0 =>
         segments[Len(segments)].endLine < currentSegment.startLine
    /\ contentLines = SubSeq(lines, currentSegment.startLine + 1, lineIdx)

\* C30: the line-based parseSegments keeps at most one segment open: a
\* start marker met while a segment is open always fails with the 'Nested
\* segment markers' error (and that error has no other cause), and every
\* segment returned has startLine < endLine, ends before the next begins,
\* and has as content exactly the lines strictly between its two marker
\* lines.
C30_OneSegmentOpenAtATime ==
  /\ [][NestedStartFails]_vars
  /\ [](SegmentsInOrder /\ OneSegmentOpen)
  /\ []((linePc = "thrown" /\ lineErr.kind = "Nested") =>
          (/\ lineErr.line = lineIdx + 1
           /\ startMatch(lines[lineIdx + 1])
           /\ currentSegment.open))
  /\ [](linePc \in {"returned", "thrown"} =>
          (LineOutcome(lines, 1, 0) = "nested" <=>
             (linePc = "thrown" /\ lineErr.kind = "Nested")))

\* Witness of C30: a line with a start and an end marker opens a segment
\* that the end marker of line 4 closes; its content is lines 2 and 3.
C30_Witness ==
  /\ linePc = "returned"
  /\ lines = <<BothLine, EmptyKeyLine, TextLine, EndLine>>
  /\ Len(segments) = 1
  /\ segments[1].startLine = 1 /\ segments[1].endLine = 4
  /\ segments[1].content = <<EmptyKeyLine, TextLine>>

(***************************************************************************)
(* SpecRef: a reference is built from three components and parsed back.    *)
(***************************************************************************)
RefInit ==
  /\ refArgs \in [project : NonEmptyStrings, pageId : NonEmptyStrings,
                  segmentId : NonEmptyStrings]
  /\ refStr = <<>>
  /\ refParsed = InvalidRef
  /\ refPc = "args"

BuildSegmentRef ==
  /\ refPc = "args"
  /\ refStr' = buildSegmentRef(refArgs.project, refArgs.pageId, refArgs.segmentId)
  /\ refPc' = "built"
  /\ UNCHANGED <<refArgs, refParsed>>
  /\ UNCHANGED <<segVars, lineVars, journeyVars, linkVars, conceptVars, aggVars, valVars, resVars, navVars, hierVars, projAggVars, dfsVars, regVars>>

ParseSegmentRef ==
  /\ refPc = "built"
  /\ refParsed' = parseSegmentRef(refStr)
  /\ refPc' = "parsed"
  /\ UNCHANGED <<refArgs, refStr>>
  /\ UNCHANGED <<segVars, lineVars, journeyVars, linkVars, conceptVars, aggVars, valVars, resVars, navVars, hierVars, projAggVars, dfsVars, regVars>>

InitRef == RefInit /\ SegIdle /\ LineIdle /\ JourneyIdle /\ LinkIdle /\ ConceptIdle /\ AggIdle /\ ValIdle /\ ResIdle /\ NavIdle /\ HierIdle /\ ProjAggIdle /\ DfsIdle /\ RegIdle

NextRef == BuildSegmentRef \/ ParseSegmentRef

SpecRef == InitRef /\ [][NextRef]_vars

(***************************************************************************)
(* Properties of the reference parser.                                     *)
(***************************************************************************)
Contains(str, c) == \E i \in 1..Len(str) : str[i] = c

RoundTrips ==
  /\ refParsed.valid
  /\ refParsed.project = Str(refArgs.project)
  /\ refParsed.documentId = Str(refArgs.pageId)
  /\ refParsed.segmentId = refArgs.segmentId

\* C5 as claimed: parsing a built reference returns the three components,
\* whatever non-empty strings they are.
C5_RoundTripAllStrings == refPc = "parsed" => RoundTrips

\* C5 amended: parsing a built reference returns the three components for
\* all non-empty components whose project holds no '/' and whose segment
\* holds no '#' (and for no others).
C5_RoundTripWithoutSeparators ==
  refPc = "parsed" =>
    (RoundTrips <=>
       (~Contains(refArgs.project, "/") /\ ~Contains(refArgs.segmentId, "#")))

\* Witness of C5: a round trip with '#' in the project, '/' and '#' in the
\* page and '/' in the segment.
C5_Witness ==
  /\ refPc = "parsed"
  /\ refArgs = [project |-> <<"a", "#">>, pageId |-> <<"/", "#">>, segmentId |-> <<"/", "a">>]
  /\ RoundTrips

(***************************************************************************)
(* SpecJourney: a journey document is written node by node, connection by *)
(* connection, and then validated.                                         *)
(***************************************************************************)
JourneyInit ==
  /\ journey \in Journeys
  /\ journeyResult = NoValidation
  /\ journeyPc = "input"

\* The journey document gets one more node, with the next id of NodeIds.
AddNode ==
  /\ journeyPc = "input"
  /\ journey.header = HeaderFields /\ journey.nodes.some
  /\ Len(journey.nodes.v) < Len(NodeIds)
  /\ journey' = [journey EXCEPT !.nodes.v =
                   Append(@, JourneyNode(NodeIds[Len(@) + 1], <<>>))]
  /\ UNCHANGED <<journeyResult, journeyPc>>
  /\ UNCHANGED <<segVars, lineVars, refVars, linkVars, conceptVars, aggVars, valVars, resVars, navVars, hierVars, projAggVars, dfsVars, regVars>>

\* The last node of the journey document gets one more connection.
AddConnection ==
  /\ journeyPc = "input"
  /\ journey.nodes.some /\ journey.nodes.v # <<>>
  /\ LET n == Len(journey.nodes.v)
     IN /\ Len(journey.nodes.v[n].connections) < MaxConns
        /\ \E t \in Targets :
             journey' = [journey EXCEPT !.nodes.v[n].connections = Append(@, t)]
  /\ UNCHANGED <<journeyResult, journeyPc>>
  /\ UNCHANGED <<segVars, lineVars, refVars, linkVars, conceptVars, aggVars, valVars, resVars, navVars, hierVars, projAggVars, dfsVars, regVars>>

ValidateJourney ==
  /\ journeyPc = "input"
  /\ journeyResult' = validateJourney(journey)
  /\ journeyPc' = "validated"
  /\ UNCHANGED journey
  /\ UNCHANGED <<segVars, lineVars, refVars, linkVars, conceptVars, aggVars, valVars, resVars, navVars, hierVars, projAggVars, dfsVars, regVars>>

InitJourney == JourneyInit /\ SegIdle /\ LineIdle /\ RefIdle /\ LinkIdle /\ ConceptIdle /\ AggIdle /\ ValIdle /\ ResIdle /\ NavIdle /\ HierIdle /\ ProjAggIdle /\ DfsIdle /\ RegIdle

NextJourney == AddNode \/ AddConnection \/ ValidateJourney

SpecJourney == InitJourney /\ [][NextJourney]_vars

(***************************************************************************)
(* Properties of the journey validation.                                   *)
(***************************************************************************)
HasFinding(result, f) == \E i \in 1..Len(result.errors) : result.errors[i] = f

UniqueNodeIds(nodes) ==
  \A i, j \in 1..Len(nodes) : nodes[i].id = nodes[j].id => i = j

\* The directed graph of the target_node_id connections of a node list.
Edges(nodes) ==
  UNION {{<<nodes[i].id, nodes[i].connections[k]>> :
            k \in {k \in 1..Len(nodes[i].connections) :
                     nodes[i].connections[k] # NoTarget}} : i \in 1..Len(nodes)}

\* The pairs joined by a path of at most n + 1 edges of E.
RECURSIVE PathsWithin(_, _, _)
PathsWithin(E, R, n) ==
  IF n = 0 THEN R
  ELSE PathsWithin(E,
                   R \cup {<<p[1][1], p[2][2]>> : p \in {p \in R \X E : p[1][2] = p[2][1]}},
                   n - 1)

HasCycle(nodes) ==
  \E e \in PathsWithin(Edges(nodes), Edges(nodes), Len(nodes)) : e[1] = e[2]

ChainABC ==
  [header |-> HeaderFields,
   nodes |-> NodeList(<<JourneyNode("a", <<"b">>), JourneyNode("b", <<"c">>),
                        JourneyNode("c", <<>>)>>)]

CycleABC ==
  [header |-> HeaderFields,
   nodes |-> NodeList(<<JourneyNode("a", <<"b">>), JourneyNode("b", <<"c">>),
                        JourneyNode("c", <<"a">>)>>)]

\* C6: with unique node ids, validateJourney returns the cycle finding
\* exactly when the graph of the target_node_id connections has a cycle
\* (connections without a target_node_id are no edges of it); a -> b -> c
\* -> a has the finding and a -> b -> c has none.
C6_CycleFindingIffCycle ==
  /\ (journeyPc = "validated" /\ journey.nodes.some /\ UniqueNodeIds(journey.nodes.v)) =>
       /\ ~journeyResult.threw
       /\ HasFinding(journeyResult, CycleFinding) <=> HasCycle(journey.nodes.v)
  /\ (journeyPc = "validated" /\ journey = CycleABC) =>
       HasFinding(journeyResult, CycleFinding)
  /\ (journeyPc = "validated" /\ journey = ChainABC) =>
       (~journeyResult.threw /\ ~HasFinding(journeyResult, CycleFinding))

\* Witness of C6: a -> b -> c -> a validated, with the cycle finding.
C6_Witness ==
  /\ journeyPc = "validated"
  /\ journey = CycleABC
  /\ journeyResult.errors = <<CycleFinding>>

NodeRequired == Finding("At least one node required", "")

\* C21: validateJourney never throws; it returns its findings for every
\* journey, and these hold 'At least one node required' when the node list
\* is missing or empty.
C21_FindingsNeverThrown ==
  journeyPc = "validated" =>
    /\ ~journeyResult.threw
    /\ (~journey.nodes.some \/ journey.nodes.v = <<>>) =>
         HasFinding(journeyResult, NodeRequired)

\* What holds of the code: a journey with a node list, empty or not, gets
\* its findings returned, 'At least one node required' among them exactly
\* when the list is empty; a journey without node list makes it throw.
C21_ThrowsIffNodesMissing ==
  journeyPc = "validated" =>
    /\ journeyResult.threw <=> ~journey.nodes.some
    /\ journey.nodes.some =>
         (HasFinding(journeyResult, NodeRequired) <=> journey.nodes.v = <<>>)

\* Witness of C21: a journey with all header fields and no node list was
\* validated, and the validation threw.
C21_Witness ==
  /\ journeyPc = "validated"
  /\ journey = [header |-> HeaderFields, nodes |-> NoNodes]
  /\ journeyResult.threw

(***************************************************************************)
(* SpecLink: a linkage document is written entry by entry and validated;   *)
(* a missing reverse entry is then added and the document validated again. *)
(***************************************************************************)
LinkInit ==
  /\ linkage = EmptyLinkage
  /\ linkErrors = <<>>
  /\ linkBefore = <<>>
  /\ linkPc = "edit"

LinkOthersUnchanged ==
  UNCHANGED <<segVars, lineVars, refVars, journeyVars, conceptVars, aggVars, valVars, resVars, navVars, hierVars, projAggVars, dfsVars, regVars>>

\* A new code_to_assets entry, without assets yet.
AddCodeMapping ==
  /\ linkPc = "edit"
  /\ linkage.asset_to_code = <<>>
  /\ \E symbol \in Symbols :
       /\ ~HasKey(linkage.code_to_assets, symbol)
       /\ linkage' = [linkage EXCEPT !.code_to_assets = Append(@, CodeMapping(symbol, <<>>))]
  /\ UNCHANGED <<linkErrors, linkBefore, linkPc>>
  /\ LinkOthersUnchanged

\* One more asset under the last code_to_assets entry.
AddAsset ==
  /\ linkPc = "edit"
  /\ linkage.asset_to_code = <<>>
  /\ linkage.code_to_assets # <<>>
  /\ LET n == Len(linkage.code_to_assets)
     IN /\ Len(linkage.code_to_assets[n].assets) < MaxAssets
        /\ \E path \in AssetPaths :
             linkage' = [linkage EXCEPT !.code_to_assets[n].assets = Append(@, path)]
  /\ UNCHANGED <<linkErrors, linkBefore, linkPc>>
  /\ LinkOthersUnchanged

\* A new asset_to_code entry, without code refs yet.
AddAssetMapping ==
  /\ linkPc = "edit"
  /\ \E docPath \in AssetPaths :
       /\ ~HasKey(linkage.asset_to_code, docPath)
       /\ linkage' = [linkage EXCEPT !.asset_to_code = Append(@, AssetMapping(docPath, <<>>))]
  /\ UNCHANGED <<linkErrors, linkBefore, linkPc>>
  /\ LinkOthersUnchanged

\* One more code ref, of a code path not listed yet, under the last
\* asset_to_code entry.
AddCodeRef ==
  /\ linkPc = "edit"
  /\ linkage.asset_to_code # <<>>
  /\ LET n == Len(linkage.asset_to_code)
         refs == linkage.asset_to_code[n].code_refs
     IN \E path \in CodePaths :
          /\ \A j \in 1..Len(refs) : refs[j].path # path
          /\ linkage' = [linkage EXCEPT !.asset_to_code[n].code_refs =
                           Append(@, CodeRef(path, <<>>))]
  /\ UNCHANGED <<linkErrors, linkBefore, linkPc>>
  /\ LinkOthersUnchanged

\* One more function under the last code ref of the last asset_to_code entry.
AddFunction ==
  /\ linkPc = "edit"
  /\ linkage.asset_to_code # <<>>
  /\ LET n == Len(linkage.asset_to_code)
         refs == linkage.asset_to_code[n].code_refs
     IN /\ refs # <<>>
        /\ Len(refs[Len(refs)].functions) < MaxFunctions
        /\ \E func \in Functions :
             linkage' = [linkage EXCEPT
                           !.asset_to_code[n].code_refs[Len(refs)].functions = Append(@, func)]
  /\ UNCHANGED <<linkErrors, linkBefore, linkPc>>
  /\ LinkOthersUnchanged

ValidateLinkage ==
  /\ linkPc = "edit"
  /\ linkErrors' = validateBidirectionalConsistency(linkage)
  /\ linkPc' = "validated"
  /\ UNCHANGED <<linkage, linkBefore>>
  /\ LinkOthersUnchanged

\* The asset_to_code entry a 'Missing reverse mapping' finding asks for is
\* added (with no code refs) and the document is validated again.
AddReverseMapping ==
  /\ linkPc \in {"validated", "revalidated"}
  /\ \E i \in 1..Len(linkErrors) :
       /\ linkErrors[i].kind = "Missing reverse mapping"
       /\ LET fixed == [linkage EXCEPT !.asset_to_code =
                          Append(@, AssetMapping(linkErrors[i].name, <<>>))]
          IN /\ linkage' = fixed
             /\ linkErrors' = validateBidirectionalConsistency(fixed)
  /\ linkBefore' = linkErrors
  /\ linkPc' = "revalidated"
  /\ LinkOthersUnchanged

InitLink ==
  LinkInit /\ SegIdle /\ LineIdle /\ RefIdle /\ JourneyIdle /\ ConceptIdle /\ AggIdle /\ ValIdle /\ ResIdle /\ NavIdle /\ HierIdle /\ ProjAggIdle /\ DfsIdle /\ RegIdle

NextLink ==
  \/ AddCodeMapping
  \/ AddAsset
  \/ AddAssetMapping
  \/ AddCodeRef
  \/ AddFunction
  \/ ValidateLinkage
  \/ AddReverseMapping

SpecLink == InitLink /\ [][NextLink]_vars

(***************************************************************************)
(* Properties of the linkage validation.                                   *)
(***************************************************************************)
RECURSIVE Flatten(_)
Flatten(ss) == IF ss = <<>> THEN <<>> ELSE Head(ss) \o Flatten(Tail(ss))

Count(seq, x) == Cardinality({i \in 1..Len(seq) : seq[i] = x})

\* Every asset path under code_to_assets, one per occurrence.
AssetOccurrences(l) ==
  Flatten([i \in 1..Len(l.code_to_assets) |-> l.code_to_assets[i].assets])

\* Every 'path:function' under asset_to_code, one per occurrence.
SymbolOccurrences(l) ==
  Flatten([i \in 1..Len(l.asset_to_code) |->
            Flatten([j \in 1..Len(l.asset_to_code[i].code_refs) |->
                      [k \in 1..Len(l.asset_to_code[i].code_refs[j].functions) |->
                         SymbolOf(l.asset_to_code[i].code_refs[j].path,
                                  l.asset_to_code[i].code_refs[j].functions[k])]])])

KeysOf(object) == {object[i].key : i \in 1..Len(object)}

CrossMapInvariant(l) ==
  /\ \A i \in 1..Len(AssetOccurrences(l)) : AssetOccurrences(l)[i] \in KeysOf(l.asset_to_code)
  /\ \A i \in 1..Len(SymbolOccurrences(l)) : SymbolOccurrences(l)[i] \in KeysOf(l.code_to_assets)

ConceptInit ==
  /\ graph = EmptyGraph
  /\ conceptErrors = <<>>
  /\ conceptPc = "edit"

ConceptOthersUnchanged ==
  UNCHANGED <<segVars, lineVars, refVars, journeyVars, linkVars, aggVars, valVars, resVars, navVars, hierVars, projAggVars, dfsVars, regVars>>

AddConcept ==
  /\ conceptPc = "edit"
  /\ graph.relationships = <<>>
  /\ Len(graph.concepts) < MaxConcepts
  /\ \E concept \in Concepts :
       graph' = [graph EXCEPT !.concepts = Append(@, concept)]
  /\ UNCHANGED <<conceptErrors, conceptPc>>
  /\ ConceptOthersUnchanged

\* A graph holds at most one relationship here.
AddRelationship ==
  /\ conceptPc = "edit"
  /\ graph.relationships = <<>>
  /\ \E rel \in Relationships :
       graph' = [graph EXCEPT !.relationships = Append(@, rel)]
  /\ UNCHANGED <<conceptErrors, conceptPc>>
  /\ ConceptOthersUnchanged

ValidateConcepts ==
  /\ conceptPc = "edit"
  /\ conceptErrors' = validateConcepts(graph)
  /\ conceptPc' = "validated"
  /\ UNCHANGED graph
  /\ ConceptOthersUnchanged

InitConcepts ==
  ConceptInit /\ SegIdle /\ LineIdle /\ RefIdle /\ JourneyIdle /\ LinkIdle /\ AggIdle /\ ValIdle /\ ResIdle /\ NavIdle /\ HierIdle /\ ProjAggIdle /\ DfsIdle /\ RegIdle

NextConcepts == AddConcept \/ AddRelationship \/ ValidateConcepts

SpecConcepts == InitConcepts /\ [][NextConcepts]_vars

(***************************************************************************)
(* Properties of the concept validation.                                   *)
(***************************************************************************)
\* The findings that refer to the confidence of the concept id.
ConfidenceErrors(id) ==
  {i \in 1..Len(conceptErrors) :
     conceptErrors[i] \in {DiscoveredNeedsConfidence(id), ManualHasConfidence(id),
                           InvalidConfidence(id)}}

\* A graph of one concept that has id, key and name.
OneConcept ==
  /\ Len(graph.concepts) = 1
  /\ graph.relationships = <<>>
  /\ graph.concepts[1].id # ""
  /\ graph.concepts[1].key # ""
  /\ graph.concepts[1].name # ""

InRange(confidence) == confidence.v >= 0 /\ confidence.v <= 10

\* C8 as stated: a discovered concept without a confidence and a manual
\* concept with a confidence each yield exactly one finding.
C8_ExactlyOneFinding ==
  (conceptPc = "validated" /\ OneConcept) =>
    LET c == graph.concepts[1]
    IN /\ (c.source = "discovered" /\ ~c.confidence.some) => Len(conceptErrors) = 1
       /\ (c.source = "manual" /\ c.confidence.some) => Len(conceptErrors) = 1

\* C8, amended: a discovered concept without a confidence yields exactly
\* one finding; a manual concept with a confidence yields exactly one
\* finding when the confidence lies in [0, 1] and two when it does not (the
\* second one from the range check); every such finding refers to the
\* confidence of that concept.  In any graph the confidence findings of an
\* id are, counted over the concepts of that id, one per discovered concept
\* without a confidence, one per manual concept with one, and one per
\* confidence out of range.
C8_PairingFindings ==
  conceptPc = "validated" =>
    /\ OneConcept =>
         LET c == graph.concepts[1]
         IN /\ (c.source = "discovered" /\ ~c.confidence.some) =>
                 conceptErrors = <<DiscoveredNeedsConfidence(c.id)>>
            /\ (c.source = "manual" /\ c.confidence.some /\ InRange(c.confidence)) =>
                 conceptErrors = <<ManualHasConfidence(c.id)>>
            /\ (c.source = "manual" /\ c.confidence.some /\ ~InRange(c.confidence)) =>
                 conceptErrors = <<ManualHasConfidence(c.id), InvalidConfidence(c.id)>>
    /\ \A id \in ConceptIds :
         LET of == {i \in 1..Len(graph.concepts) : graph.concepts[i].id = id}
             c(i) == graph.concepts[i]
         IN Cardinality(ConfidenceErrors(id)) =
              Cardinality({i \in of : c(i).source = "discovered" /\ ~c(i).confidence.some})
              + Cardinality({i \in of : c(i).source = "manual" /\ c(i).confidence.some})
              + Cardinality({i \in of : c(i).confidence.some /\ ~InRange(c(i).confidence)})

\* Witness of C8: a manual concept with confidence 1.5 was validated and
\* got its two findings.
C8_Witness ==
  /\ conceptPc = "validated"
  /\ graph.concepts = <<Concept("a", "k", "n", "manual", Some(15))>>
  /\ conceptErrors = <<ManualHasConfidence("a"), InvalidConfidence("a")>>

HasConceptError(e) == \E i \in 1..Len(conceptErrors) : conceptErrors[i] = e

DeclaredConceptIds == {graph.concepts[i].id : i \in 1..Len(graph.concepts)}

\* The concept id a relationship end denotes: the end without the prefix
\* 'concept:@', as the existence checks of validateConcepts read it.
Denotes(ref) == StripPrefix(ref)

RelationshipFindingFree ==
  /\ ~HasConceptError(SelfReference)
  /\ \A i \in 1..Len(graph.relationships) :
       /\ ~HasConceptError(NonExistentConcept(RefString(graph.relationships[i].from)))
       /\ ~HasConceptError(NonExistentConcept(RefString(graph.relationships[i].to)))

\* C23: every relationship whose from and to denote the same concept id
\* gets the self-reference finding, every end that denotes no declared
\* concept the missing-endpoint finding; without such findings every
\* relationship joins two distinct declared concepts.
C23_SelfReferenceAndMissingEnds ==
  conceptPc = "validated" =>
    /\ \A i \in 1..Len(graph.relationships) :
         LET rel == graph.relationships[i]
         IN /\ Denotes(rel.from) = Denotes(rel.to) => HasConceptError(SelfReference)
            /\ Denotes(rel.from) \notin DeclaredConceptIds =>
                 HasConceptError(NonExistentConcept(RefString(rel.from)))
            /\ Denotes(rel.to) \notin DeclaredConceptIds =>
                 HasConceptError(NonExistentConcept(RefString(rel.to)))
    /\ RelationshipFindingFree =>
         \A i \in 1..Len(graph.relationships) :
           LET rel == graph.relationships[i]
           IN /\ Denotes(rel.from) \in DeclaredConceptIds
              /\ Denotes(rel.to) \in DeclaredConceptIds
              /\ Denotes(rel.from) # Denotes(rel.to)

\* What holds of the code: the missing-endpoint findings are given as
\* claimed; the self-reference finding is given exactly when some
\* relationship has the same string as from and to.
C23_SelfReferenceByString ==
  conceptPc = "validated" =>
    /\ \A i \in 1..Len(graph.relationships) :
         LET rel == graph.relationships[i]
         IN /\ Denotes(rel.from) \notin DeclaredConceptIds <=>
                 HasConceptError(NonExistentConcept(RefString(rel.from)))
            /\ Denotes(rel.to) \notin DeclaredConceptIds <=>
                 HasConceptError(NonExistentConcept(RefString(rel.to)))
    /\ HasConceptError(SelfReference) <=>
         \E i \in 1..Len(graph.relationships) :
           RefString(graph.relationships[i].from) = RefString(graph.relationships[i].to)

\* Witness of C23: the concept a with a relationship from 'concept:@a' to
\* 'a' was validated without any finding.
C23_Witness ==
  /\ conceptPc = "validated"
  /\ graph.concepts = <<Concept("a", "k", "n", "imported", None)>>
  /\ Len(graph.relationships) = 1
  /\ graph.relationships[1].from = ConceptRef(TRUE, "a")
  /\ graph.relationships[1].to = ConceptRef(FALSE, "a")
  /\ graph.relationships[1].weight = 5
  /\ conceptErrors = <<>>

(***************************************************************************)
(* SpecAgg: the annotations of a page are written segment by segment and   *)
(* aggregated.                                                             *)
(***************************************************************************)
AggInit ==
  /\ annotations \in {[semantics |-> sem, segments |-> <<>>] : sem \in AnnotationSemantics}
  /\ aggregation = NoAggregation
  /\ aggPc = "edit"

AggOthersUnchanged ==
  UNCHANGED <<segVars, lineVars, refVars, journeyVars, linkVars, conceptVars, valVars, resVars, navVars, hierVars, projAggVars, dfsVars, regVars>>

AddSegment ==
  /\ aggPc = "edit"
  /\ Len(annotations.segments) < MaxSegments
  /\ \E boost \in Boosts, return \in Returns, other \in Others :
       annotations' = [annotations EXCEPT
                         !.segments = Append(@, AnnotatedSegment(boost, return, other))]
  /\ UNCHANGED <<aggregation, aggPc>>
  /\ AggOthersUnchanged

AggregatePageMetadata ==
  /\ aggPc = "edit"
  /\ aggregation' = aggregatePageMetadata(annotations)
  /\ aggPc' = "aggregated"
  /\ UNCHANGED annotations
  /\ AggOthersUnchanged

InitAgg ==
  AggInit /\ SegIdle /\ LineIdle /\ RefIdle /\ JourneyIdle /\ LinkIdle /\ ConceptIdle /\ ValIdle /\ ResIdle /\ NavIdle /\ HierIdle /\ ProjAggIdle /\ DfsIdle /\ RegIdle

NextAgg == AddSegment \/ AggregatePageMetadata

SpecAgg == InitAgg /\ [][NextAgg]_vars

(***************************************************************************)
(* Properties of the aggregation.                                          *)
(***************************************************************************)
\* The declared boost of a segment, 1.0 when it declares none.
DeclaredBoost(segment) == IF segment.boost.some THEN segment.boost.v ELSE 10

RECURSIVE Sum(_, _)
Sum(f, n) == IF n = 0 THEN 0 ELSE f[n] + Sum(f, n - 1)

SameQuotient(p, q) == p.num * q.den = q.num * p.den

\* C9: average_boost is the sum of declared boost times return.max_tokens
\* over the sum of return.max_tokens, the boost of a segment that declares
\* none being 1.0, and is 1.0 when the denominator is zero; budgets 800 and
\* 200 with boosts 1.2 and 1.0 give 1.16.
C9_TokenWeightedAverageBoost ==
  aggPc = "aggregated" =>
    LET segs == annotations.segments
        tokens == [i \in 1..Len(segs) |-> OrZero(segs[i].return.max_tokens)]
        weighted == [i \in 1..Len(segs) |-> DeclaredBoost(segs[i]) * tokens[i]]
        den == Sum(tokens, Len(segs))
    IN /\ den = 0 => SameQuotient(aggregation.average_boost, Quotient(10, 1))
       /\ den > 0 => SameQuotient(aggregation.average_boost,
                                  Quotient(Sum(weighted, Len(segs)), den))
       /\ (/\ Len(segs) = 2
           /\ tokens = <<800, 200>>
           /\ segs[1].boost = Some(12)
           /\ segs[2].boost = Some(10)) =>
            SameQuotient(aggregation.average_boost, Quotient(116, 10))

\* What the code computes: as C9, but a declared boost of 0 counts as 1.0.
C9_ZeroBoostCountsAsOne ==
  aggPc = "aggregated" =>
    LET segs == annotations.segments
        tokens == [i \in 1..Len(segs) |-> OrZero(segs[i].return.max_tokens)]
        weighted == [i \in 1..Len(segs) |->
                       (IF DeclaredBoost(segs[i]) = 0 THEN 10 ELSE DeclaredBoost(segs[i]))
                       * tokens[i]]
        den == Sum(tokens, Len(segs))
    IN /\ den = 0 => SameQuotient(aggregation.average_boost, Quotient(10, 1))
       /\ den > 0 => SameQuotient(aggregation.average_boost,
                                  Quotient(Sum(weighted, Len(segs)), den))

\* The failing input of C9 was aggregated: one segment of boost 0 and
\* return.max_tokens 800, whose average_boost came out as 1.0.
C9_Witness ==
  /\ aggPc = "aggregated"
  /\ Len(annotations.segments) = 1
  /\ annotations.segments[1].boost = Some(0)
  /\ annotations.segments[1].return.max_tokens = Some(800)
  /\ SameQuotient(aggregation.average_boost, Quotient(10, 1))

(***************************************************************************)
(* SpecValidate: a document is written (specs into its frontmatter, whole  *)
(* segments into its text), parsed, and validated in both modes.           *)
(***************************************************************************)
ValInit ==
  /\ valText = [frontmatter |-> [present |-> TRUE, specs |-> <<>>], content |-> <<>>]
  /\ valDoc = NoParse
  /\ strictErrors = <<>>
  /\ looseErrors = <<>>
  /\ valPc = "edit"

ValOthersUnchanged ==
  UNCHANGED <<segVars, lineVars, refVars, journeyVars, linkVars, conceptVars, aggVars, resVars, navVars, hierVars, projAggVars, dfsVars, regVars>>

AddSpec ==
  /\ valPc = "edit"
  /\ valText.content = <<>>
  /\ Len(valText.frontmatter.specs) < MaxSpecs
  /\ \E spec \in ValSpecs :
       valText' = [valText EXCEPT !.frontmatter.specs = Append(@, spec)]
  /\ UNCHANGED <<valDoc, strictErrors, looseErrors, valPc>>
  /\ ValOthersUnchanged

\* One more segment in the text: its start marker and its end marker.
AddMarkedSegment ==
  /\ valPc = "edit"
  /\ Len(valText.content) < 2 * MaxMarkers
  /\ \E id \in SegIds :
       valText' = [valText EXCEPT !.content = @ \o <<StartToken(id), EndToken>>]
  /\ UNCHANGED <<valDoc, strictErrors, looseErrors, valPc>>
  /\ ValOthersUnchanged

ValidateBothModes ==
  /\ valPc = "edit"
  /\ LET doc == parseSegments(valText)
     IN /\ doc.ok
        /\ valDoc' = doc
        /\ strictErrors' = validateStrict(doc)
        /\ looseErrors' = validateLoose(doc)
  /\ valPc' = "validated"
  /\ UNCHANGED valText
  /\ ValOthersUnchanged

InitValidate ==
  ValInit /\ SegIdle /\ LineIdle /\ RefIdle /\ JourneyIdle /\ LinkIdle /\ ConceptIdle /\ AggIdle /\ ResIdle /\ NavIdle /\ HierIdle /\ ProjAggIdle /\ DfsIdle /\ RegIdle

NextValidate == AddSpec \/ AddMarkedSegment \/ ValidateBothModes

SpecValidate == InitValidate /\ [][NextValidate]_vars

(***************************************************************************)
(* Properties of the segment validation.                                   *)
(***************************************************************************)
Occurrences(seq, x) == Cardinality({i \in 1..Len(seq) : seq[i] = x})

SpecIdsOf(doc) == {doc.specs[i].id : i \in 1..Len(doc.specs)}

MarkerIdsOf(doc) == {doc.segments[i].id : i \in 1..Len(doc.segments)}

CrossLinkErrors ==
  {MarkerWithoutSpec(id) : id \in SegIds} \cup {SpecWithoutMarker(id) : id \in ValSpecIds}

\* C12: the strict mode reports, for every id, as many 'marker has no spec'
\* findings as the text has markers of that id when no spec declares it
\* (none otherwise), and as many 'spec has no marker' findings as the
\* frontmatter has specs of that id when no marker carries it (none
\* otherwise); the loose mode reports no finding of either kind.
C12_CrossLinksStrictOnly ==
  valPc = "validated" =>
    /\ \A id \in SegIds :
         Occurrences(strictErrors, MarkerWithoutSpec(id)) =
           IF id \in SpecIdsOf(valDoc) THEN 0
           ELSE Cardinality({i \in 1..Len(valDoc.segments) : valDoc.segments[i].id = id})
    /\ \A id \in ValSpecIds :
         Occurrences(strictErrors, SpecWithoutMarker(id)) =
           IF id \in MarkerIdsOf(valDoc) THEN 0
           ELSE Cardinality({i \in 1..Len(valDoc.specs) : valDoc.specs[i].id = id})
    /\ \A i \in 1..Len(looseErrors) : looseErrors[i] \notin CrossLinkErrors

\* Witness of C12: two markers B without spec and two specs A without
\* marker were validated: four cross-link findings in strict mode.
C12_Witness ==
  /\ valPc = "validated"
  /\ SegmentIds(valDoc) = <<"B", "B">>
  /\ Len(valDoc.specs) = 2 /\ SpecIdsOf(valDoc) = {"A"}
  /\ Occurrences(strictErrors, MarkerWithoutSpec("B")) = 2
  /\ Occurrences(strictErrors, SpecWithoutMarker("A")) = 2

\* The range findings a spec calls for.
RangeViolations(spec) ==
  (IF spec.return.present /\ spec.return.maxTokens < 0
   THEN {NegativeReturnTokens(spec.id)} ELSE {})
  \cup (IF spec.generate.present /\ spec.generate.maxTokens < 0
        THEN {NegativeGenerateTokens(spec.id)} ELSE {})
  \cup (IF /\ spec.generate.present /\ spec.generate.temperature.some
           /\ (spec.generate.temperature.v < 0 \/ spec.generate.temperature.v > 20)
        THEN {BadTemperature(spec.id)} ELSE {})
  \cup (IF /\ spec.generate.present /\ spec.generate.iterations.some
           /\ spec.generate.iterations.v < 0
        THEN {NegativeIterations(spec.id)} ELSE {})
  \cup (IF spec.boost.some /\ spec.boost.v < 0 THEN {NegativeBoost(spec.id)} ELSE {})

Reported(errors, e) == \E i \in 1..Len(errors) : errors[i] = e

\* C13: in both modes, every range violation of a frontmatter spec (a
\* negative return or generate token budget, a temperature outside [0, 2],
\* a negative iteration count, a negative boost) yields its finding for
\* that spec.
C13_RangeViolationsInBothModes ==
  valPc = "validated" =>
    \A i \in 1..Len(valDoc.specs) :
      \A e \in RangeViolations(valDoc.specs[i]) :
        Reported(strictErrors, e) /\ Reported(looseErrors, e)

\* What the code does: the strict mode reports every range violation of a
\* spec whose id is not empty; the loose mode reports every range violation
\* but a negative iteration count, which it never reports.
C13_LooseIgnoresIterations ==
  valPc = "validated" =>
    /\ \A i \in 1..Len(valDoc.specs) :
         \A e \in RangeViolations(valDoc.specs[i]) :
           /\ valDoc.specs[i].id # "" => Reported(strictErrors, e)
           /\ e # NegativeIterations(valDoc.specs[i].id) => Reported(looseErrors, e)
    /\ \A id \in ValSpecIds : ~Reported(looseErrors, NegativeIterations(id))

\* The failing input of C13 was validated: one spec A with generate
\* iterations -1 (and temperature -0.1), for which the loose mode reports
\* the temperature and not the iterations.
C13_Witness ==
  /\ valPc = "validated"
  /\ valDoc.specs = <<MkSpec("A", Some(10), NoConfig, GenerateConfig(100, Some(-1), Some(-1)))>>
  /\ Reported(strictErrors, NegativeIterations("A"))
  /\ Reported(looseErrors, BadTemperature("A"))
  /\ ~Reported(looseErrors, NegativeIterations("A"))

\* The parsed document as it would be handed to validation had the specs
\* been left as the frontmatter declares them.
DeclaredDoc ==
  LET declared == valText.frontmatter.specs
  IN [valDoc EXCEPT
        !.specs = declared,
        !.segments = [i \in 1..Len(valDoc.segments) |->
                        [valDoc.segments[i] EXCEPT
                           !.spec = SpecLookup(declared, valDoc.segments[i].id,
                                               Len(declared))]]]

SameFindingsAsDeclared ==
  /\ strictErrors = validateStrict(DeclaredDoc)
  /\ looseErrors = validateLoose(DeclaredDoc)

\* C24: the specs that reach validation carry boost 1.0 where the
\* frontmatter declares none and their declared boost otherwise, nothing
\* else differs, and the findings are those of the declared specs.
C24_DeclaredBoostUnchanged ==
  valPc = "validated" =>
    /\ Len(valDoc.specs) = Len(valText.frontmatter.specs)
    /\ \A i \in 1..Len(valDoc.specs) :
         LET declared == valText.frontmatter.specs[i]
         IN /\ valDoc.specs[i] = [declared EXCEPT !.boost = valDoc.specs[i].boost]
            /\ ~declared.boost.some => valDoc.specs[i].boost = Some(10)
            /\ declared.boost.some => valDoc.specs[i].boost = declared.boost
    /\ SameFindingsAsDeclared

\* What holds of the code: as C24, but a declared boost of 0 reaches
\* validation as 1.0.
C24_ZeroBoostReplaced ==
  valPc = "validated" =>
    /\ Len(valDoc.specs) = Len(valText.frontmatter.specs)
    /\ \A i \in 1..Len(valDoc.specs) :
         LET declared == valText.frontmatter.specs[i]
         IN /\ valDoc.specs[i] = [declared EXCEPT !.boost = valDoc.specs[i].boost]
            /\ ~declared.boost.some => valDoc.specs[i].boost = Some(10)
            /\ (declared.boost.some /\ declared.boost.v # 0) =>
                 valDoc.specs[i].boost = declared.boost
            /\ declared.boost = Some(0) => valDoc.specs[i].boost = Some(10)
    /\ SameFindingsAsDeclared

\* Witness of C24: a spec with a declared boost of 0 was parsed and
\* validated; it reached validation with boost 1.0.
C24_Witness ==
  /\ valPc = "validated"
  /\ valText.frontmatter.specs = <<MkSpec("A", Some(0), ReturnConfig(100), NoConfig)>>
  /\ valDoc.specs = <<MkSpec("A", Some(10), ReturnConfig(100), NoConfig)>>
  /\ Len(valDoc.segments) = 1
  /\ valDoc.segments[1].spec.boost = Some(10)
  /\ strictErrors = <<>>

\* C26: every finding of the loose mode (same segmentId, field and
\* message) is a finding of the strict mode on the same document.
C26_LooseWithinStrict ==
  valPc = "validated" =>
    \A i \in 1..Len(looseErrors) : Reported(strictErrors, looseErrors[i])

\* What holds of the code: the loose findings are strict findings but for
\* the range and configuration findings of a spec whose id is empty, which
\* the strict mode leaves out.
C26_LooseWithinStrictButEmptyIds ==
  valPc = "validated" =>
    \A i \in 1..Len(looseErrors) :
      \/ Reported(strictErrors, looseErrors[i])
      \/ /\ looseErrors[i].segmentId = ""
         /\ looseErrors[i] \in
              {BothConfigs(""), NegativeReturnTokens(""), NegativeGenerateTokens(""),
               BadTemperature(""), NegativeBoost("")}
         /\ Reported(strictErrors, EmptySpecId)

\* Witness of C26: a spec with an empty id, a negative boost and a negative
\* return budget: two loose findings that the strict mode does not give.
C26_Witness ==
  /\ valPc = "validated"
  /\ valText.frontmatter.specs = <<MkSpec("", Some(-1), ReturnConfig(-1), NoConfig)>>
  /\ Reported(looseErrors, NegativeBoost(""))
  /\ Reported(looseErrors, NegativeReturnTokens(""))
  /\ ~Reported(strictErrors, NegativeBoost(""))
  /\ ~Reported(strictErrors, NegativeReturnTokens(""))
  /\ Reported(strictErrors, EmptySpecId)

(***************************************************************************)
(* SpecResolve: a reference is written character by character and resolved *)
(* in a context.                                                           *)
(***************************************************************************)
ResOthersUnchanged ==
  UNCHANGED <<segVars, lineVars, refVars, journeyVars, linkVars, conceptVars, aggVars, valVars, navVars, hierVars, projAggVars, dfsVars, regVars>>

ResInit ==
  /\ resRef = <<>>
  /\ resContext \in Contexts
  /\ resParsed = InvalidRef
  /\ resolved = NotResolved
  /\ projParsed = NoProjectRef
  /\ resPc = "edit"

AppendChar ==
  /\ resPc = "edit"
  /\ Len(resRef) < MaxRefLen
  /\ \E c \in Chars : resRef' = Append(resRef, c)
  /\ UNCHANGED <<resContext, resParsed, resolved, projParsed, resPc>>
  /\ ResOthersUnchanged

ResolveReference ==
  /\ resPc = "edit"
  /\ resParsed' = parseSegmentRef(resRef)
  /\ resolved' = resolveReference(resRef, resContext)
  /\ resPc' = "resolved"
  /\ UNCHANGED <<resRef, resContext, projParsed>>
  /\ ResOthersUnchanged

InitResolve ==
  ResInit /\ SegIdle /\ LineIdle /\ RefIdle /\ JourneyIdle /\ LinkIdle /\ ConceptIdle /\ AggIdle /\ ValIdle /\ NavIdle /\ HierIdle /\ ProjAggIdle /\ DfsIdle /\ RegIdle

NextResolve == AppendChar \/ ResolveReference

SpecResolve == InitResolve /\ [][NextResolve]_vars

EmptyFragment(ref) == Len(ref) >= 1 /\ ref[Len(ref)] = "#"

\* C15: parseSegmentRef rejects every reference whose text after the last
\* '#' is empty, with or without a document part before the '#', and every
\* accepted reference has a non-empty segmentId.
C15_EmptySegmentRejected ==
  resPc = "resolved" =>
    /\ EmptyFragment(resRef) => ~resParsed.valid
    /\ resParsed.valid => resParsed.segmentId # <<>>

\* What the code does: a reference ending in '#' is rejected unless it
\* also begins with '#'; the accepted reference with an empty segmentId is
\* '#' alone.
C15_FragmentOnlyNotChecked ==
  resPc = "resolved" =>
    /\ (EmptyFragment(resRef) /\ ~StartsWith(resRef, "#")) => ~resParsed.valid
    /\ StartsWith(resRef, "#") => resParsed.valid
    /\ (resParsed.valid /\ resParsed.segmentId = <<>>) <=> resRef = <<"#">>

\* The failing input of C15 was parsed: '#' is accepted with an empty
\* segmentId.
C15_Witness ==
  /\ resPc = "resolved"
  /\ resRef = <<"#">>
  /\ resParsed = SegmentRef(NullStr, NullStr, <<>>, <<"#">>)

\* Resolving the canonical string again under the context gives the same
\* project, page, segment and canonical string.
ResolvesAgain(context) ==
  LET again == resolveReference(resolved.canonical, context)
  IN /\ again.threw = "none"
     /\ again.project = resolved.project
     /\ again.page = resolved.page
     /\ again.segment = resolved.segment
     /\ again.canonical = resolved.canonical

\* C29: the canonical string of a resolved reference round-trips: resolving
\* it under any context succeeds and returns the same project, page and
\* segment and the same canonical string.
C29_CanonicalRoundTrips ==
  (resPc = "resolved" /\ resolved.threw = "none") =>
    \A context \in Contexts : ResolvesAgain(context)

\* What the code does: the canonical string round-trips under every context
\* when the segment is non-empty and has no '#', and under no context
\* otherwise (a fragment-only reference gives its segment unchecked).
C29_RoundTripsUnlessFragmentUnchecked ==
  (resPc = "resolved" /\ resolved.threw = "none") =>
    LET wellFormed == resolved.segment # <<>> /\ ~Contains(resolved.segment, "#")
    IN /\ wellFormed => \A context \in Contexts : ResolvesAgain(context)
       /\ ~wellFormed =>
            /\ StartsWith(resRef, "#")
            /\ \A context \in Contexts : ~ResolvesAgain(context)

\* The failing input of C29 was resolved: '#' in a context with project 'a'
\* and page 'a' resolves to '@a/a#', which no context resolves again.
C29_Witness ==
  /\ resPc = "resolved"
  /\ resRef = <<"#">>
  /\ resContext = ReferenceContext(Str(<<"a">>), Str(<<"a">>))
  /\ resolved = ResolvedRef(<<"@", "a", "/", "a", "#">>, <<"a">>, <<"a">>, <<>>)
  /\ \A context \in Contexts : resolveReference(resolved.canonical, context).threw = "format"

(***************************************************************************)
(* SpecProject: a project reference is written and parsed.                 *)
(***************************************************************************)
ProjInit ==
  /\ resRef = <<>>
  /\ resContext = NoContext
  /\ resParsed = InvalidRef
  /\ resolved = NotResolved
  /\ projParsed = NoProjectRef
  /\ resPc = "project"

AppendProjChar ==
  /\ resPc = "project"
  /\ Len(resRef) < MaxProjLen
  /\ \E c \in ProjChars : resRef' = Append(resRef, c)
  /\ UNCHANGED <<resContext, resParsed, resolved, projParsed, resPc>>
  /\ ResOthersUnchanged

ParseProjectRef ==
  /\ resPc = "project"
  /\ projParsed' = parseProjectRef(resRef)
  /\ resPc' = "projectParsed"
  /\ UNCHANGED <<resRef, resContext, resParsed, resolved>>
  /\ ResOthersUnchanged

InitProject ==
  ProjInit /\ SegIdle /\ LineIdle /\ RefIdle /\ JourneyIdle /\ LinkIdle /\ ConceptIdle /\ AggIdle /\ ValIdle /\ NavIdle /\ HierIdle /\ ProjAggIdle /\ DfsIdle /\ RegIdle

NextProject == AppendProjChar \/ ParseProjectRef

SpecProject == InitProject /\ [][NextProject]_vars

(***************************************************************************)
(* Properties of the project reference parser.                             *)
(***************************************************************************)
\* The reference is '@' and a non-empty project.
AtForm(ref) == StartsWith(ref, "@") /\ Len(ref) > 1

\* The reference is a non-empty scope, ':', and a non-empty project, the
\* scope ending at the first ':'.
ScopeForm(ref) ==
  /\ ~StartsWith(ref, "@")
  /\ \E i \in 2..(Len(ref) - 1) : ref[i] = ":" /\ \A j \in 1..(i - 1) : ref[j] # ":"

\* C16: parseProjectRef accepts '@project' and 'scope:project' only, split
\* at the first ':', with a non-empty scope and a non-empty project.
C16_ScopeAndProjectNonEmpty ==
  resPc = "projectParsed" =>
    /\ projParsed.valid <=> (AtForm(resRef) \/ ScopeForm(resRef))
    /\ (projParsed.valid /\ AtForm(resRef)) =>
         (projParsed.scope = <<"@">> /\ projParsed.project = Tail(resRef))
    /\ (projParsed.valid /\ ~StartsWith(resRef, "@")) =>
         /\ projParsed.scope \o projParsed.project = resRef
         /\ projParsed.scope[Len(projParsed.scope)] = ":"
         /\ ~Contains(SubSeq(projParsed.scope, 1, Len(projParsed.scope) - 1), ":")

\* What the code does: as C16, but the scope before the first ':' may be
\* empty.
C16_ScopeMayBeEmpty ==
  resPc = "projectParsed" =>
    /\ projParsed.valid <=>
         \/ AtForm(resRef)
         \/ /\ ~StartsWith(resRef, "@")
            /\ \E i \in 1..(Len(resRef) - 1) : resRef[i] = ":"
    /\ projParsed.valid => projParsed.project # <<>>
    /\ (projParsed.valid /\ ~StartsWith(resRef, "@")) =>
         /\ projParsed.scope \o projParsed.project = resRef
         /\ projParsed.scope[Len(projParsed.scope)] = ":"
         /\ ~Contains(SubSeq(projParsed.scope, 1, Len(projParsed.scope) - 1), ":")

\* The failing input of C16 was parsed: ':a' is accepted, with scope ':'.
C16_Witness ==
  /\ resPc = "projectParsed"
  /\ resRef = <<":", "a">>
  /\ projParsed = ProjectRef(<<":">>, <<"a">>, <<":", "a">>)

(***************************************************************************)
(* SpecNav: a navigation tree is written item by item (each new item the   *)
(* last one of some level under the last items), then flattened and        *)
(* filtered by version v1.                                                 *)
(***************************************************************************)
NavOthersUnchanged ==
  UNCHANGED <<segVars, lineVars, refVars, journeyVars, linkVars, conceptVars, aggVars, valVars, resVars, hierVars, projAggVars, dfsVars, regVars>>

NavInit ==
  /\ navTree \in {NavigationTree(versions, <<>>) : versions \in VersionLists}
  /\ navVersion = "v1"
  /\ navFlat = <<>>
  /\ navFiltered = EmptyTree
  /\ navPc = "edit"

\* The new item carries the next id of NavIds and has no children yet.
AddItem ==
  /\ navPc = "edit"
  /\ ItemCount(navTree.items) < MaxItems
  /\ \E depth \in 0..SpineDepth(navTree.items), versions \in VersionLists :
       navTree' = [navTree EXCEPT !.items =
                     AppendAtDepth(@, depth,
                                   NavigationItem(NavIds[ItemCount(navTree.items) + 1],
                                                  versions, NoList))]
  /\ UNCHANGED <<navVersion, navFlat, navFiltered, navPc>>
  /\ NavOthersUnchanged

FlattenAndFilter ==
  /\ navPc = "edit"
  /\ navFlat' = flattenTree(navTree)
  /\ navFiltered' = filterByVersion(navTree, navVersion)
  /\ navPc' = "done"
  /\ UNCHANGED <<navTree, navVersion>>
  /\ NavOthersUnchanged

InitNav ==
  NavInit /\ SegIdle /\ LineIdle /\ RefIdle /\ JourneyIdle /\ LinkIdle /\ ConceptIdle /\ AggIdle /\ ValIdle /\ ResIdle /\ HierIdle /\ ProjAggIdle /\ DfsIdle /\ RegIdle

NextNav == AddItem \/ FlattenAndFilter

SpecNav == InitNav /\ [][NextNav]_vars

(***************************************************************************)
(* Properties of the navigation transforms.  Item ids are distinct.        *)
(***************************************************************************)
\* The paths of the items of a forest: the ids from a root down to the item.
RECURSIVE PathsOf(_, _)
PathsOf(items, prefix) ==
  UNION {{Append(prefix, items[k].id)} \cup
         (IF items[k].children.some
          THEN PathsOf(items[k].children.v, Append(prefix, items[k].id)) ELSE {})
         : k \in 1..Len(items)}

\* The pairs of ids of two items of one list, the first before the second.
RECURSIVE SiblingPairs(_)
SiblingPairs(items) ==
  {<<items[ij[1]].id, items[ij[2]].id>> :
      ij \in {ij \in (1..Len(items)) \X (1..Len(items)) : ij[1] < ij[2]}}
  \cup UNION {IF items[k].children.some THEN SiblingPairs(items[k].children.v) ELSE {}
              : k \in 1..Len(items)}

FlatIds(flat) == [i \in 1..Len(flat) |-> flat[i].id]

IndexIn(flat, id) == CHOOSE i \in 1..Len(flat) : flat[i].id = id

IsPrefix(p, q) == Len(p) <= Len(q) /\ SubSeq(q, 1, Len(p)) = p

\* C17: flattenTree returns one entry per item of the tree; an entry's path
\* is the ids of its ancestors from the root followed by its own id, its
\* level the number of its ancestors, its parentId the id of its parent
\* (none for a root); the order is pre-order: an item comes before the
\* items below it, these come right after it, and siblings keep their
\* order.
C17_FlattenPreOrder ==
  navPc = "done" =>
    /\ Len(navFlat) = ItemCount(navTree.items)
    /\ {navFlat[i].path : i \in 1..Len(navFlat)} = PathsOf(navTree.items, <<>>)
    /\ \A i, j \in 1..Len(navFlat) : navFlat[i].id = navFlat[j].id => i = j
    /\ \A i \in 1..Len(navFlat) :
         LET e == navFlat[i]
         IN /\ e.path[Len(e.path)] = e.id
            /\ e.level = Len(e.path) - 1
            /\ e.parentId = IF Len(e.path) = 1 THEN NullStr ELSE Str(e.path[Len(e.path) - 1])
    /\ \A i, j \in 1..Len(navFlat) :
         (i # j /\ IsPrefix(navFlat[i].path, navFlat[j].path)) =>
           /\ i < j
           /\ \A k \in i..j : IsPrefix(navFlat[i].path, navFlat[k].path)
    /\ \A pair \in SiblingPairs(navTree.items) :
         IndexIn(navFlat, pair[1]) < IndexIn(navFlat, pair[2])

\* Witness of C17: a with child b with child c, and a second root d.
C17_Witness ==
  /\ navPc = "done"
  /\ FlatIds(navFlat) = <<"a", "b", "c", "d">>
  /\ navFlat[3].level = 2
  /\ navFlat[3].path = <<"a", "b", "c">>
  /\ navFlat[3].parentId = Str("b")
  /\ navFlat[4].level = 0

\* The item's own version constraint, or the tree's, is absent or holds the
\* target version.
Passes(e) ==
  LET constraint == IF e.versions.some THEN e.versions ELSE navTree.versions
  IN ~constraint.some \/ navVersion \in {constraint.v[i] : i \in 1..Len(constraint.v)}

TreeExcluded ==
  /\ navTree.versions.some
  /\ navVersion \notin {navTree.versions.v[i] : i \in 1..Len(navTree.versions.v)}

\* The ids of the items that are in what filterByVersion returned.
KeptIds == {e.id : e \in {flattenTree(navFiltered)[i] : i \in 1..ItemCount(navFiltered.items)}}

\* C18 as stated: no items when the tree's allow-list lacks the target;
\* otherwise an item is kept exactly when its own or inherited constraint
\* lets it pass, whether or not its parent was kept.
C18_KeptWhateverTheParent ==
  navPc = "done" =>
    /\ TreeExcluded => navFiltered.items = <<>>
    /\ ~TreeExcluded =>
         KeptIds = {navFlat[i].id : i \in {i \in 1..Len(navFlat) : Passes(navFlat[i])}}

\* C18, amended: no items when the tree's allow-list lacks the target;
\* otherwise an item is kept exactly when it and all its ancestors pass
\* (an item that does not pass is dropped with everything below it), and
\* the kept items keep their order, their paths and their levels.
C18_KeptWithAllAncestors ==
  navPc = "done" =>
    /\ navFiltered.versions = navTree.versions
    /\ TreeExcluded => navFiltered.items = <<>>
    /\ ~TreeExcluded =>
         LET passing == {navFlat[i].id : i \in {i \in 1..Len(navFlat) : Passes(navFlat[i])}}
             kept(e) == \A k \in 1..Len(e.path) : e.path[k] \in passing
             out == flattenTree(navFiltered)
             expected == SelectSeq(navFlat, kept)
         IN /\ Len(out) = Len(expected)
            /\ \A i \in 1..Len(out) :
                 /\ out[i].id = expected[i].id
                 /\ out[i].path = expected[i].path
                 /\ out[i].level = expected[i].level
                 /\ out[i].versions = expected[i].versions

\* Witness of C18: a (for v2 only) with child b (for v1), and a root c:
\* filtering for v1 keeps c alone; b is dropped with a.
C18_Witness ==
  /\ navPc = "done"
  /\ navTree.versions = NoList
  /\ FlatIds(navFlat) = <<"a", "b", "c">>
  /\ navFlat[1].versions = List(<<"v2">>)
  /\ navFlat[2].versions = List(<<"v1">>) /\ navFlat[2].level = 1
  /\ navFlat[3].level = 0
  /\ FlatIds(flattenTree(navFiltered)) = <<"c">>

(***************************************************************************)
(* The concept hierarchy: a graph is written concept by concept and        *)
(* relationship by relationship, then its hierarchy is built from rootKey. *)
(***************************************************************************)
HierOthersUnchanged ==
  UNCHANGED <<segVars, lineVars, refVars, journeyVars, linkVars, conceptVars, aggVars, valVars, resVars, navVars, projAggVars, dfsVars, regVars>>

HierInit ==
  /\ hierGraph = EmptyGraph
  /\ rootKey = "ka"
  /\ hierarchy = NullHierarchy
  /\ hierPc = "edit"

\* The concepts have distinct ids; two concepts may share a key.
AddHierConcept ==
  /\ hierPc = "edit"
  /\ hierGraph.relationships = <<>>
  /\ Len(hierGraph.concepts) < MaxHierConcepts
  /\ \E key \in HierKeys :
       hierGraph' = [hierGraph EXCEPT !.concepts =
                       Append(@, Concept(HierIds[Len(@) + 1], key, "n", "imported", None))]
  /\ UNCHANGED <<rootKey, hierarchy, hierPc>>
  /\ HierOthersUnchanged

AddHierRelationship ==
  /\ hierPc = "edit"
  /\ Len(hierGraph.relationships) < MaxRelationships
  /\ \E rel \in HierRelationships :
       hierGraph' = [hierGraph EXCEPT !.relationships = Append(@, rel)]
  /\ UNCHANGED <<rootKey, hierarchy, hierPc>>
  /\ HierOthersUnchanged

BuildConceptHierarchy ==
  /\ hierPc = "edit"
  /\ \E key \in RootKeys :
       /\ rootKey' = key
       /\ hierarchy' = buildConceptHierarchy(hierGraph, key)
  /\ hierPc' = "done"
  /\ UNCHANGED hierGraph
  /\ HierOthersUnchanged

InitHierarchy ==
  HierInit /\ SegIdle /\ LineIdle /\ RefIdle /\ JourneyIdle /\ LinkIdle /\ ConceptIdle /\ AggIdle /\ ValIdle /\ ResIdle /\ NavIdle /\ ProjAggIdle /\ DfsIdle /\ RegIdle

NextHierarchy == AddHierConcept \/ AddHierRelationship \/ BuildConceptHierarchy

SpecHierarchy == InitHierarchy /\ [][NextHierarchy]_vars

(***************************************************************************)
(* Properties of the concept hierarchy.                                    *)
(***************************************************************************)
\* The concepts that declare concept as their parent, in relationship
\* order: the concept with the from id of each relationship of kind
\* 'parent' whose to is concept, an end being read as validateConcepts
\* reads it (a concept id, bare or behind 'concept:@').
DeclaredChildren(concept) ==
  LET IsChildEdge(r) ==
        /\ r.kind = "parent"
        /\ StripPrefix(r.to) = concept.id
        /\ \E i \in 1..Len(hierGraph.concepts) : hierGraph.concepts[i].id = StripPrefix(r.from)
      edges == SelectSeq(hierGraph.relationships, IsChildEdge)
  IN [i \in 1..Len(edges) |->
        hierGraph.concepts[CHOOSE k \in 1..Len(hierGraph.concepts) :
                             hierGraph.concepts[k].id = StripPrefix(edges[i].from)]]

\* Every node of the hierarchy h has the hierarchies of the declared
\* children of its concept as its children, in order.
RECURSIVE ChildrenAsDeclared(_)
ChildrenAsDeclared(h) ==
  /\ Len(h.children) = Len(DeclaredChildren(h.concept))
  /\ \A i \in 1..Len(h.children) :
       /\ h.children[i].concept = DeclaredChildren(h.concept)[i]
       /\ ChildrenAsDeclared(h.children[i])

KeyPresent == \E i \in 1..Len(hierGraph.concepts) : hierGraph.concepts[i].key = rootKey

\* C19: buildConceptHierarchy gives null, not an error, when no concept has
\* the root key; otherwise it returns {concept: root, children} with root a
\* concept of that key and, at every level, the children being the
\* hierarchies, in relationship order, of the concepts that are the from
\* end of a relationship of kind 'parent' whose to end is the node's
\* concept.
C19_HierarchyOfDeclaredChildren ==
  hierPc = "done" =>
    /\ ~KeyPresent => hierarchy = NullHierarchy
    /\ KeyPresent =>
         /\ hierarchy.kind = "node"
         /\ hierarchy.concept.key = rootKey
         /\ ChildrenAsDeclared(hierarchy)

\* No two concepts share a key and every to end carries 'concept:@'.
KeysDistinctAndToPrefixed ==
  /\ \A i, j \in 1..Len(hierGraph.concepts) :
       hierGraph.concepts[i].key = hierGraph.concepts[j].key => i = j
  /\ \A i \in 1..Len(hierGraph.relationships) : hierGraph.relationships[i].to.prefixed

\* What holds of the code: a missing root key gives null; on graphs with
\* distinct keys and prefixed to ends, a call that returns gives the
\* hierarchy of the declared children.
C19_HierarchyWhenItReturns ==
  hierPc = "done" =>
    /\ ~KeyPresent => hierarchy = NullHierarchy
    /\ (KeyPresent /\ KeysDistinctAndToPrefixed /\ hierarchy.kind # "RangeError") =>
         /\ hierarchy.kind = "node"
         /\ hierarchy.concept.key = rootKey
         /\ ChildrenAsDeclared(hierarchy)

\* Witness of C19: b and c share the key ka and c declares a as its parent
\* (no cycle, no self reference, both ends exist): the call returns, with
\* the hierarchy of b where that of c belongs.
C19_Witness ==
  /\ hierPc = "done"
  /\ Len(hierGraph.concepts) = 3
  /\ hierGraph.concepts[1].key = "kb"
  /\ hierGraph.concepts[2].key = "ka"
  /\ hierGraph.concepts[3].key = "ka"
  /\ rootKey = "kb"
  /\ hierGraph.relationships =
       <<ConceptRelationship(ConceptRef(TRUE, "c"), ConceptRef(TRUE, "a"), "parent", 5)>>
  /\ DeclaredChildren(hierGraph.concepts[1]) = <<hierGraph.concepts[3]>>
  /\ hierarchy = Hierarchy(hierGraph.concepts[1],
                           <<Hierarchy(hierGraph.concepts[2], <<>>)>>)

\* validateConcepts reports no finding for the graph.
CleanGraph == validateConcepts(hierGraph) = <<>>

\* The 'parent' relationships as pairs of the concept ids their ends denote.
ParentEdges ==
  {<<StripPrefix(hierGraph.relationships[i].from), StripPrefix(hierGraph.relationships[i].to)>> :
     i \in {i \in 1..Len(hierGraph.relationships) : hierGraph.relationships[i].kind = "parent"}}

ParentCycle ==
  \E e \in PathsWithin(ParentEdges, ParentEdges, Len(hierGraph.concepts)) : e[1] = e[2]

KeysDistinct ==
  \A i, j \in 1..Len(hierGraph.concepts) :
    hierGraph.concepts[i].key = hierGraph.concepts[j].key => i = j

\* C25: on every graph for which validateConcepts reports no finding,
\* buildConceptHierarchy ends and returns a tree (or null), whatever the
\* 'parent' relationships.
C25_TerminatesOnCleanGraphs ==
  (hierPc = "done" /\ CleanGraph) => hierarchy.kind \in {"node", "null"}

\* What holds of the code: on a clean graph with distinct keys whose
\* 'parent' relationships have no cycle the call returns.
C25_TerminatesWithoutParentCycle ==
  (hierPc = "done" /\ CleanGraph /\ KeysDistinct /\ ~ParentCycle) =>
    hierarchy.kind \in {"node", "null"}

\* Witness of C25: a and b with distinct keys declare each other as parent;
\* validateConcepts reports nothing and the hierarchy of a never returns.
C25_Witness ==
  /\ hierPc = "done"
  /\ Len(hierGraph.concepts) = 2
  /\ hierGraph.concepts[1].key = "ka" /\ hierGraph.concepts[2].key = "kb"
  /\ rootKey = "ka"
  /\ hierGraph.relationships =
       <<ConceptRelationship(ConceptRef(FALSE, "b"), ConceptRef(TRUE, "a"), "parent", 5),
         ConceptRelationship(ConceptRef(TRUE, "a"), ConceptRef(TRUE, "b"), "parent", 5)>>
  /\ CleanGraph
  /\ hierarchy = RangeError

(***************************************************************************)
(* SpecProjectAgg: the pages of a project are written page by page, each   *)
(* segment by segment, and the project is aggregated.                      *)
(***************************************************************************)
ProjAggOthersUnchanged ==
  UNCHANGED <<segVars, lineVars, refVars, journeyVars, linkVars, conceptVars, aggVars, valVars, resVars, navVars, hierVars, dfsVars, regVars>>

ProjAggInit ==
  /\ pages = <<>>
  /\ projectAggregation = NoAggregation
  /\ projAggPc = "edit"

AddPage ==
  /\ projAggPc = "edit"
  /\ Len(pages) < MaxPages
  /\ pages' = Append(pages, EmptyAnnotations)
  /\ UNCHANGED <<projectAggregation, projAggPc>>
  /\ ProjAggOthersUnchanged

\* A segment is added to the last page.
AddPageSegment ==
  /\ projAggPc = "edit"
  /\ pages # <<>>
  /\ Len(pages[Len(pages)].segments) < MaxSegments
  /\ \E segment \in ProjectSegments :
       pages' = [pages EXCEPT ![Len(pages)].segments = Append(@, segment)]
  /\ UNCHANGED <<projectAggregation, projAggPc>>
  /\ ProjAggOthersUnchanged

AggregateProjectMetadata ==
  /\ projAggPc = "edit"
  /\ projectAggregation' = aggregateProjectMetadata(pages, "p")
  /\ projAggPc' = "aggregated"
  /\ UNCHANGED pages
  /\ ProjAggOthersUnchanged

InitProjectAgg ==
  ProjAggInit /\ SegIdle /\ LineIdle /\ RefIdle /\ JourneyIdle /\ LinkIdle /\ ConceptIdle /\ AggIdle /\ ValIdle /\ ResIdle /\ NavIdle /\ HierIdle /\ DfsIdle /\ RegIdle

NextProjectAgg == AddPage \/ AddPageSegment \/ AggregateProjectMetadata

SpecProjectAgg == InitProjectAgg /\ [][NextProjectAgg]_vars

(***************************************************************************)
(* Properties of the checksums.                                            *)
(***************************************************************************)
NonEmptyString(str) == str # ""

\* The checksums of the segments of a page that have one, in order.
PresentSegmentChecksums(page) ==
  SelectSeq([i \in 1..Len(page.segments) |-> page.segments[i].segment_checksum],
            NonEmptyString)

\* Every page checksum is '' or the digest of the joined present segment
\* checksums of its page.
PageChecksumsOverPresent ==
  /\ Len(projectAggregation.pages) = Len(pages)
  /\ \A k \in 1..Len(pages) :
       LET present == PresentSegmentChecksums(pages[k])
       IN /\ projectAggregation.pages[k].segment_checksums = present
          /\ projectAggregation.pages[k].page_checksum =
               IF present = <<>> THEN [prefix |-> "", digestOf |-> ""]
               ELSE [prefix |-> "sha256:", digestOf |-> Join(present)]

\* The checksums of the pages that have one, in order.
PresentPageChecksums ==
  SelectSeq([k \in 1..Len(pages) |->
               ChecksumString(projectAggregation.pages[k].page_checksum)],
            NonEmptyString)

\* C20: the page checksum is computed over exactly the present segment
\* checksums, in order, and the project checksum over exactly the present
\* page checksums, in order: a segment or page without checksum adds
\* nothing to the digest input.
C20_AbsentChecksumsOmitted ==
  projAggPc = "aggregated" =>
    /\ PageChecksumsOverPresent
    /\ projectAggregation.project_aggregation.project_checksum.digestOf =
         Join(PresentPageChecksums)

\* What holds of the code: the page checksums are over the present segment
\* checksums; the project checksum is over the checksums of all pages, the
\* empty ones included.
C20_EveryPageJoined ==
  projAggPc = "aggregated" =>
    /\ PageChecksumsOverPresent
    /\ projectAggregation.project_aggregation.project_checksum =
         [prefix |-> "sha256:",
          digestOf |-> Join([k \in 1..Len(pages) |->
                               ChecksumString(projectAggregation.pages[k].page_checksum)])]

\* Witness of C20: a page with one segment of checksum h1 and a page
\* without segments; the digest input ends in the separator, unlike that
\* of the first page alone.
C20_Witness ==
  /\ projAggPc = "aggregated"
  /\ Len(pages) = 2
  /\ PresentSegmentChecksums(pages[1]) = <<"h1">>
  /\ pages[2].segments = <<>>
  /\ projectAggregation.project_aggregation.project_checksum.digestOf = "sha256:H(h1)|"
  /\ aggregateProjectMetadata(<<pages[1]>>, "p").project_aggregation.project_checksum.digestOf
       = "sha256:H(h1)"

(***************************************************************************)
(* SpecDfs: validateJourney on a journey whose header is complete, with    *)
(* the cycle check run step by step.  The node ids need not be distinct.   *)
(* A pending call of dfs is the id it was called with and the position of  *)
(* its loop over the neighbors.  When dfs finds a cycle every pending call *)
(* returns true without another look at the sets: the run ends there.      *)
(***************************************************************************)
DfsIds == {"a", "b"}

DfsConnections == {<<>>, <<"a">>, <<"b">>, <<"a", "b">>}

Frame(nodeId, k) == [nodeId |-> nodeId, k |-> k]

\* graph.get(nodeId) || [] for the node list under check.
Neighbors(nodeId) == GraphGet(dfsNodes, nodeId, Len(dfsNodes))

DfsOthersUnchanged ==
  UNCHANGED <<segVars, lineVars, refVars, journeyVars, linkVars, conceptVars, aggVars, valVars, resVars, navVars, hierVars, projAggVars, regVars>>

DfsInit ==
  /\ dfsNodes = <<>>
  /\ dfsErrors = <<>>
  /\ visited = {}
  /\ recStack = {}
  /\ callStack = <<>>
  /\ rootIdx = 1
  /\ cycleFound = FALSE
  /\ dfsPc = "input"

AddDfsNode ==
  /\ dfsPc = "input"
  /\ Len(dfsNodes) < MaxDfsNodes
  /\ \E id \in DfsIds, connections \in DfsConnections :
       dfsNodes' = Append(dfsNodes, JourneyNode(id, connections))
  /\ UNCHANGED <<dfsErrors, visited, recStack, callStack, rootIdx, cycleFound, dfsPc>>
  /\ DfsOthersUnchanged

\* Lines 434-459 and 470-476: the findings before the cycle check, and the
\* empty sets of hasCycles.
StartCycleCheck ==
  /\ dfsPc = "input"
  /\ dfsErrors' = (IF dfsNodes = <<>> THEN <<Finding("At least one node required", "")>>
                   ELSE <<>>)
                  \o NodeFindings(dfsNodes, 1, {})
  /\ dfsPc' = "run"
  /\ UNCHANGED <<dfsNodes, visited, recStack, callStack, rootIdx, cycleFound>>
  /\ DfsOthersUnchanged

\* Lines 495-497 with 479-480: the loop over the nodes calls dfs.
EnterRoot ==
  /\ dfsPc = "run" /\ callStack = <<>>
  /\ rootIdx <= Len(dfsNodes)
  /\ dfsNodes[rootIdx].id \notin visited
  /\ visited' = visited \cup {dfsNodes[rootIdx].id}
  /\ recStack' = recStack \cup {dfsNodes[rootIdx].id}
  /\ callStack' = <<Frame(dfsNodes[rootIdx].id, 1)>>
  /\ UNCHANGED <<dfsNodes, dfsErrors, rootIdx, cycleFound, dfsPc>>
  /\ DfsOthersUnchanged

\* Line 496: a node whose id was visited is passed over.
SkipRoot ==
  /\ dfsPc = "run" /\ callStack = <<>>
  /\ rootIdx <= Len(dfsNodes)
  /\ dfsNodes[rootIdx].id \in visited
  /\ rootIdx' = rootIdx + 1
  /\ UNCHANGED <<dfsNodes, dfsErrors, visited, recStack, callStack, cycleFound, dfsPc>>
  /\ DfsOthersUnchanged

\* Lines 484-485 with 479-480: dfs calls itself for a neighbor not visited.
Descend ==
  /\ dfsPc = "run" /\ callStack # <<>>
  /\ LET top == callStack[Len(callStack)]
         neighbors == Neighbors(top.nodeId)
     IN /\ top.k <= Len(neighbors)
        /\ neighbors[top.k] \notin visited
        /\ visited' = visited \cup {neighbors[top.k]}
        /\ recStack' = recStack \cup {neighbors[top.k]}
        /\ callStack' = Append([callStack EXCEPT ![Len(callStack)].k = top.k + 1],
                               Frame(neighbors[top.k], 1))
  /\ UNCHANGED <<dfsNodes, dfsErrors, rootIdx, cycleFound, dfsPc>>
  /\ DfsOthersUnchanged

\* Lines 484-488: a neighbor visited and no longer in progress is passed
\* over.
SkipNeighbor ==
  /\ dfsPc = "run" /\ callStack # <<>>
  /\ LET top == callStack[Len(callStack)]
         neighbors == Neighbors(top.nodeId)
     IN /\ top.k <= Len(neighbors)
        /\ neighbors[top.k] \in visited
        /\ neighbors[top.k] \notin recStack
        /\ callStack' = [callStack EXCEPT ![Len(callStack)].k = top.k + 1]
  /\ UNCHANGED <<dfsNodes, dfsErrors, visited, recStack, rootIdx, cycleFound, dfsPc>>
  /\ DfsOthersUnchanged

\* Lines 486-487, 485, 497 and 462-464: a neighbor in progress; every
\* pending call returns true and validateJourney adds the cycle finding.
DetectCycle ==
  /\ dfsPc = "run" /\ callStack # <<>>
  /\ LET top == callStack[Len(callStack)]
         neighbors == Neighbors(top.nodeId)
     IN /\ top.k <= Len(neighbors)
        /\ neighbors[top.k] \in visited
        /\ neighbors[top.k] \in recStack
  /\ cycleFound' = TRUE
  /\ dfsErrors' = Append(dfsErrors, CycleFinding)
  /\ dfsPc' = "done"
  /\ UNCHANGED <<dfsNodes, visited, recStack, callStack, rootIdx>>
  /\ DfsOthersUnchanged

\* Mutant of ReturnFromDfs: the id stays in the recursion stack.
ReturnFromDfs_KeepsRecStack ==
  /\ dfsPc = "run" /\ callStack # <<>>
  /\ LET top == callStack[Len(callStack)]
     IN /\ top.k > Len(Neighbors(top.nodeId))
        /\ recStack' = recStack
        /\ callStack' = SubSeq(callStack, 1, Len(callStack) - 1)
        /\ rootIdx' = IF Len(callStack) = 1 THEN rootIdx + 1 ELSE rootIdx
  /\ UNCHANGED <<dfsNodes, dfsErrors, visited, cycleFound, dfsPc>>
  /\ DfsOthersUnchanged

\* Lines 491-492: the neighbors are done; the id leaves the recursion stack
\* and dfs returns false, to the dfs that called it or to the loop over the
\* nodes, which goes on.
ReturnFromDfs ==
  /\ dfsPc = "run" /\ callStack # <<>>
  /\ LET top == callStack[Len(callStack)]
     IN /\ top.k > Len(Neighbors(top.nodeId))
        /\ recStack' = recStack \ {top.nodeId}
        /\ callStack' = SubSeq(callStack, 1, Len(callStack) - 1)
        /\ rootIdx' = IF Len(callStack) = 1 THEN rootIdx + 1 ELSE rootIdx
  /\ UNCHANGED <<dfsNodes, dfsErrors, visited, cycleFound, dfsPc>>
  /\ DfsOthersUnchanged

\* Lines 501 and 462-466: no node is left; hasCycles returns false and
\* validateJourney its findings.
ReturnNoCycle ==
  /\ dfsPc = "run" /\ callStack = <<>>
  /\ rootIdx > Len(dfsNodes)
  /\ cycleFound' = FALSE
  /\ dfsPc' = "done"
  /\ UNCHANGED <<dfsNodes, dfsErrors, visited, recStack, callStack, rootIdx>>
  /\ DfsOthersUnchanged

InitDfs ==
  DfsInit /\ SegIdle /\ LineIdle /\ RefIdle /\ JourneyIdle /\ LinkIdle /\ ConceptIdle /\ AggIdle /\ ValIdle /\ ResIdle /\ NavIdle /\ HierIdle /\ ProjAggIdle /\ RegIdle

\* A step of the cycle check.
CycleCheckStep ==
  EnterRoot \/ SkipRoot \/ Descend \/ SkipNeighbor \/ DetectCycle \/ ReturnFromDfs
  \/ ReturnNoCycle

NextDfs == AddDfsNode \/ StartCycleCheck \/ CycleCheckStep

\* The code runs on once the check has begun.
SpecDfs == InitDfs /\ [][NextDfs]_vars /\ WF_vars(CycleCheckStep)

(***************************************************************************)
(* Properties of the cycle check.                                          *)
(***************************************************************************)
\* The ids of the pending calls of dfs, outermost first.
DfsPath == [i \in 1..Len(callStack) |-> callStack[i].nodeId]

\* The in-progress set holds exactly the ids on the DFS path, each once.
RecStackIsPath ==
  /\ recStack = {DfsPath[i] : i \in 1..Len(callStack)}
  /\ \A i, j \in 1..Len(callStack) : DfsPath[i] = DfsPath[j] => i = j

\* A step that calls dfs calls it with an id not visited before, and no id
\* ever leaves the visited set.
EntersUnvisitedOnly ==
  /\ visited \subseteq visited'
  /\ Len(callStack') > Len(callStack) =>
       /\ callStack'[Len(callStack')].nodeId \notin visited
       /\ callStack'[Len(callStack')].nodeId \in visited'

HasDuplicateId(nodes) == \E i, j \in 1..Len(nodes) : i # j /\ nodes[i].id = nodes[j].id

HasDfsFinding(f) == \E i \in 1..Len(dfsErrors) : dfsErrors[i] = f

HasDuplicateFinding == \E i \in 1..Len(dfsErrors) : dfsErrors[i].msg = "Duplicate node ID"

\* C22: a journey with a duplicated node id and a cycle over its
\* target_node_id connections gets both the duplicate finding and the cycle
\* finding; one with a duplicated id and no cycle gets no cycle finding.
C22_DuplicatesAndCyclesBothReported ==
  (dfsPc = "done" /\ HasDuplicateId(dfsNodes)) =>
    /\ HasDuplicateFinding
    /\ HasCycle(dfsNodes) <=> HasDfsFinding(CycleFinding)

\* The nodes whose connections the cycle check keeps: of the nodes with one
\* id, the last (graph.set of line 472 replaces the entry of the id).
LastOfEachId(nodes) ==
  SelectSeq([i \in 1..Len(nodes) |-> [node |-> nodes[i], last |-> \A j \in (i + 1)..Len(nodes) : nodes[j].id # nodes[i].id]],
            LAMBDA e : e.last)

KeptNodes(nodes) == [i \in 1..Len(LastOfEachId(nodes)) |-> LastOfEachId(nodes)[i].node]

\* What holds of the code: every duplicated id gets its finding; the cycle
\* finding is given exactly when the connections of the last node of each
\* id form a cycle, so never without a cycle in the journey.
C22_CycleOverLastNodes ==
  dfsPc = "done" =>
    /\ HasDuplicateId(dfsNodes) <=> HasDuplicateFinding
    /\ HasDfsFinding(CycleFinding) <=> HasCycle(KeptNodes(dfsNodes))
    /\ HasDfsFinding(CycleFinding) => HasCycle(dfsNodes)
    /\ cycleFound = hasCycles(dfsNodes)
    /\ ~validateJourney([header |-> HeaderFields, nodes |-> NodeList(dfsNodes)]).threw
    /\ dfsErrors = validateJourney([header |-> HeaderFields, nodes |-> NodeList(dfsNodes)]).errors

\* Witness of C22: a -> b, b -> a and a second a without connections: the
\* duplicate is reported, the cycle a -> b -> a is not.
C22_Witness ==
  /\ dfsPc = "done"
  /\ dfsNodes = <<JourneyNode("a", <<"b">>), JourneyNode("b", <<"a">>), JourneyNode("a", <<>>)>>
  /\ HasCycle(dfsNodes)
  /\ dfsErrors = <<Finding("Duplicate node ID", "a")>>

(***************************************************************************)
(* SpecRegistry: a registry is created empty (new Registry, createRegistry *)
(* without configuration) and takes register and loadFromConfig calls;     *)
(* createRegistry(config) is the creation with loadFromConfig as first     *)
(* call.                                                                   *)
(***************************************************************************)
RegOthersUnchanged ==
  UNCHANGED <<segVars, lineVars, refVars, journeyVars, linkVars, conceptVars, aggVars, valVars, resVars, navVars, hierVars, projAggVars, dfsVars>>

RegInit ==
  /\ links = <<>>
  /\ registrations = <<>>
  /\ regPc = "open"

Register ==
  /\ regPc = "open"
  /\ Len(registrations) < MaxRegistrations
  /\ \E id \in LinkIds, targetId \in LinkIds, url \in Urls :
       /\ links' = register(links, id, LinkTarget(targetId, url))
       /\ registrations' = Append(registrations, MapEntry(id, LinkTarget(targetId, url)))
  /\ UNCHANGED regPc
  /\ RegOthersUnchanged

LoadFromConfig ==
  /\ regPc = "open"
  /\ \E config \in Configs :
       /\ Len(registrations) + Len(config) <= MaxRegistrations
       /\ links' = loadFromConfig(links, config)
       /\ registrations' = registrations \o config
  /\ UNCHANGED regPc
  /\ RegOthersUnchanged

InitRegistry ==
  RegInit /\ SegIdle /\ LineIdle /\ RefIdle /\ JourneyIdle /\ LinkIdle /\ ConceptIdle /\ AggIdle /\ ValIdle /\ ResIdle /\ NavIdle /\ HierIdle /\ ProjAggIdle /\ DfsIdle

NextRegistry == Register \/ LoadFromConfig

SpecRegistry == InitRegistry /\ [][NextRegistry]_vars

(***************************************************************************)
(* Properties of the registry.                                             *)
(***************************************************************************)
RegisteredIds == {registrations[i].key : i \in 1..Len(registrations)}

\* The position of the most recent registration of id.
LastRegistration(id) ==
  CHOOSE i \in 1..Len(registrations) :
    /\ registrations[i].key = id
    /\ \A j \in (i + 1)..Len(registrations) : registrations[j].key # id

\* C28: has(id) holds exactly of the ids registered by some call; resolve(id)
\* is the target of the most recent registration of id with the key as its
\* id, null for an id never registered; all() holds exactly one target per
\* registered id.
C28_RegistryHoldsLastRegistrations ==
  regPc = "open" =>
    /\ \A id \in LinkIds \cup {"z"} :
         /\ has(links, id) <=> id \in RegisteredIds
         /\ id \notin RegisteredIds => resolve(links, id) = NullTarget
         /\ id \in RegisteredIds =>
              /\ resolve(links, id).id = id
              /\ resolve(links, id).url = registrations[LastRegistration(id)].value.url
    /\ Len(all(links)) = Cardinality(RegisteredIds)
    /\ \A id \in RegisteredIds :
         Cardinality({i \in 1..Len(all(links)) : all(links)[i] = resolve(links, id)}) = 1
    /\ \A i \in 1..Len(all(links)) : all(links)[i].id \in RegisteredIds

\* Witness of C28: x registered with a target of id y, y registered, x
\* registered again with another url.
C28_Witness ==
  /\ regPc = "open"
  /\ Len(registrations) = 3
  /\ registrations[1] = MapEntry("x", LinkTarget("y", "u"))
  /\ registrations[2].key = "y"
  /\ registrations[3] = MapEntry("x", LinkTarget("x", "v"))
  /\ resolve(links, "x") = LinkTarget("x", "v")
  /\ Len(all(links)) = 2

====
